---- MODULE Spec2Model ----
(***************************************************************************)
(* Model of the AI code reviewer: the unified-diff range parser and the    *)
(* review filter of utils/helpers.ts and App.tsx, and the three-stage      *)
(* review run of services/geminiService.ts driven by App.handleReview.     *)
(*                                                                         *)
(* Text is modelled as sequences of one-character strings, so that         *)
(* startsWith, substring, split and the hunk-header regular expression     *)
(* are computed on characters, as the code computes them.                  *)
(***************************************************************************)
EXTENDS Integers, Sequences, FiniteSets, TLC

(***************************************************************************)
(* Bounds of the model.                                                    *)
(***************************************************************************)
\* longest diff, in lines, that the parser specification enumerates
MaxLines == 3

(***************************************************************************)
(* Characters and strings.                                                 *)
(***************************************************************************)

\* the value of one decimal digit
DigitVal(c) ==
  CASE c = "0" -> 0 [] c = "1" -> 1 [] c = "2" -> 2 [] c = "3" -> 3
    [] c = "4" -> 4 [] c = "5" -> 5 [] c = "6" -> 6 [] c = "7" -> 7
    [] c = "8" -> 8 [] c = "9" -> 9

DigitChar(d) ==
  CASE d = 0 -> "0" [] d = 1 -> "1" [] d = 2 -> "2" [] d = 3 -> "3"
    [] d = 4 -> "4" [] d = 5 -> "5" [] d = 6 -> "6" [] d = 7 -> "7"
    [] d = 8 -> "8" [] d = 9 -> "9"

\* parseInt(s, 10) on a non-empty string of decimal digits
RECURSIVE parseInt(_)
parseInt(s) ==
  IF s = <<>> THEN 0
  ELSE 10 * parseInt(SubSeq(s, 1, Len(s) - 1)) + DigitVal(s[Len(s)])

\* the decimal numeral of a natural number, as a diff tool writes it
RECURSIVE Dec(_)
Dec(n) == IF n < 10 THEN <<DigitChar(n)>> ELSE Dec(n \div 10) \o <<DigitChar(n % 10)>>

\* String.prototype.startsWith
startsWith(s, p) == Len(s) >= Len(p) /\ SubSeq(s, 1, Len(p)) = p

\* String.prototype.substring(from) with a 0-based index
substring(s, from) == SubSeq(s, from + 1, Len(s))

\* s has the literal lit at the 1-based position i
LitAt(s, i, lit) == i + Len(lit) - 1 <= Len(s) /\ SubSeq(s, i, i + Len(lit) - 1) = lit

\* the 1-based position after the longest run of digits of s that starts at i
RECURSIVE DigitsEnd(_, _)
DigitsEnd(s, i) ==
  IF i <= Len(s) /\ s[i] \in {"0", "1", "2", "3", "4", "5", "6", "7", "8", "9"}
  THEN DigitsEnd(s, i + 1) ELSE i

\* String.prototype.split('\n'): the lines of a text; the empty text is one empty line
Least(ns) == CHOOSE n \in ns : \A m \in ns : n <= m

\* the lines of s from the 1-based position i on
RECURSIVE SplitFrom(_, _)
SplitFrom(s, i) ==
  LET newlines == {j \in i..Len(s) : s[j] = "\n"}
  IN  IF newlines = {} THEN <<SubSeq(s, i, Len(s))>>
      ELSE <<SubSeq(s, i, Least(newlines) - 1)>> \o SplitFrom(s, Least(newlines) + 1)

split(s) == SplitFrom(s, 1)

\* Array.prototype.join('\n')
RECURSIVE join(_)
join(ls) ==
  IF ls = <<>> THEN <<>>
  ELSE IF Len(ls) = 1 THEN ls[1]
  ELSE ls[1] \o <<"\n">> \o join(Tail(ls))

(***************************************************************************)
(* JavaScript objects used as tables.  The table of the parser is a plain  *)
(* object literal: a key the object does not own is looked up in           *)
(* Object.prototype, where names such as valueOf are bound to functions.   *)
(***************************************************************************)
\* property names every plain object inherits (a few of Object.prototype's)
ObjectPrototypeKeys == {
  <<"v", "a", "l", "u", "e", "O", "f">>,
  <<"t", "o", "S", "t", "r", "i", "n", "g">>,
  <<"c", "o", "n", "s", "t", "r", "u", "c", "t", "o", "r">> }

\* obj[key]: an own array, an inherited (truthy, non-array) member, or undefined
Get(obj, key) ==
  IF key \in DOMAIN obj THEN [kind |-> "array", val |-> obj[key]]
  ELSE IF key \in ObjectPrototypeKeys THEN [kind |-> "inherited", val |-> <<>>]
  ELSE [kind |-> "undefined", val |-> <<>>]

\* JavaScript truthiness of a looked-up member
Truthy(v) == v.kind # "undefined"

\* obj[key] = val
Put(obj, key, val) == [k \in DOMAIN obj \cup {key} |-> IF k = key THEN val ELSE obj[k]]

(***************************************************************************)
(* parseDiffToValidLineRanges (utils/helpers.ts).                          *)
(***************************************************************************)
\* the position after an optional group (?:,\d+)? tried at i
OptNumEnd(s, i) ==
  IF LitAt(s, i, <<",">>) /\ DigitsEnd(s, i + 1) > i + 1 THEN DigitsEnd(s, i + 1) ELSE i

NoMatch == [ok |-> FALSE, g1 |-> <<>>, g2 |-> <<>>]

\* /@@ -\d+(?:,\d+)? \+(\d+)(?:,(\d+))? @@/ tried at the 1-based position i.
\* Every quantifier is followed by a character that is no digit and no comma, so
\* the greedy choice is the only one that can match.  g2 = <<>> stands for a
\* group 2 that took no part in the match (undefined).
hunkRegexAt(s, i) ==
  LET a == i + 4
      b == DigitsEnd(s, a)
      c == OptNumEnd(s, b)
      d == c + 2
      e == DigitsEnd(s, d)
      f == OptNumEnd(s, e)
  IN  IF /\ LitAt(s, i, <<"@", "@", " ", "-">>)
         /\ b > a
         /\ LitAt(s, c, <<" ", "+">>)
         /\ e > d
         /\ LitAt(s, f, <<" ", "@", "@">>)
      THEN [ok |-> TRUE, g1 |-> SubSeq(s, d, e - 1),
            g2 |-> IF f > e THEN SubSeq(s, e + 1, f - 1) ELSE <<>>]
      ELSE NoMatch

\* line.match(regex): the leftmost match, or null
hunkMatch(line) ==
  LET hits == {i \in 1..Len(line) : hunkRegexAt(line, i).ok}
  IN  IF hits = {} THEN NoMatch
      ELSE hunkRegexAt(line, CHOOSE i \in hits : \A j \in hits : i <= j)

\* const newLength = match[2] ? parseInt(match[2], 10) : 1
newLengthOf(m) == IF m.g2 # <<>> THEN parseInt(m.g2) ELSE 1

\* hunkRange with the length counted from the line after newStart
hunkRangeShort(newStart, newLength) == [start |-> newStart, end |-> newStart + newLength - 2]

\* the pushed object { start: newStart, end: newStart + newLength - 1 }
hunkRange(newStart, newLength) == [start |-> newStart, end |-> newStart + newLength - 1]

\* the guard of the push: if (newLength > 0)
hunkContributes(newLength) == newLength > 0

\* the literal the target path is compared with
DevNull == <<"/", "d", "e", "v", "/", "n", "u", "l", "l">>

\* a new-file header line sets the cursor to a real path
isDeletedTarget(filePath) == filePath = DevNull

\* the parser before the first line: ranges = {}, currentFile = null (the empty option)
parserInit == [ranges |-> [k \in {} |-> <<>>], currentFile |-> <<>>, thrown |-> FALSE]

\* the branch `if (line.startsWith('+++ b/'))`
isHeaderLine(line) == startsWith(line, <<"+", "+", "+", " ", "b", "/">>)

\* the branch `else if (line.startsWith('@@') && currentFile)`: the cursor is
\* truthy when it is neither null nor the empty string
isHunkLine(st, line) ==
  /\ ~isHeaderLine(line)
  /\ startsWith(line, <<"@", "@">>)
  /\ st.currentFile # <<>> /\ st.currentFile[1] # <<>>

\* onHeaderLine with the list of the file emptied at every header
onHeaderLineResetting(st, line) ==
  LET filePath == substring(line, 6)
  IN  IF isDeletedTarget(filePath) THEN [st EXCEPT !.currentFile = <<>>]
      ELSE [st EXCEPT !.currentFile = <<filePath>>,
                      !.ranges = Put(st.ranges, filePath, <<>>)]

\* the body of the header branch
onHeaderLine(st, line) ==
  LET filePath == substring(line, 6)
  IN  IF isDeletedTarget(filePath) THEN [st EXCEPT !.currentFile = <<>>]
      ELSE [st EXCEPT !.currentFile = <<filePath>>,
                      !.ranges = IF ~Truthy(Get(st.ranges, filePath))
                                 THEN Put(st.ranges, filePath, <<>>)
                                 ELSE st.ranges]

\* ranges[currentFile].push(range): a TypeError when the member is not an array
pushRange(st, range) ==
  LET cf == st.currentFile[1]
      target == Get(st.ranges, cf)
  IN  IF target.kind = "array"
      THEN [st EXCEPT !.ranges = Put(st.ranges, cf, Append(target.val, range))]
      ELSE [st EXCEPT !.thrown = TRUE]

\* the body of the hunk branch
onHunkLine(st, line) ==
  LET m == hunkMatch(line)
  IN  IF m.ok
      THEN LET newStart == parseInt(m.g1)
               newLength == newLengthOf(m)
           IN  IF hunkContributes(newLength)
               THEN pushRange(st, hunkRange(newStart, newLength))
               ELSE st
      ELSE st

\* one iteration of `for (const line of lines)`
parseLine(st, line) ==
  IF isHeaderLine(line) THEN onHeaderLine(st, line)
  ELSE IF isHunkLine(st, line) THEN onHunkLine(st, line)
  ELSE st

\* the loop over lines[i..]; a TypeError leaves the loop
RECURSIVE parseFrom(_, _, _)
parseFrom(st, lines, i) ==
  IF st.thrown \/ i > Len(lines) THEN st
  ELSE parseFrom(parseLine(st, lines[i]), lines, i + 1)

\* parseDiffToValidLineRanges(diff): the final parser state; .ranges is the
\* returned table unless .thrown
parseDiffToValidLineRanges(diff) == parseFrom(parserInit, split(diff), 1)

(***************************************************************************)
(* The diffs the parser is run on.  A diff is written from a sequence of   *)
(* line descriptors, as a diff tool writes it, and parsed from its text.   *)
(***************************************************************************)
\* an omitted length of a hunk header (`+5` rather than `+5,1`)
Omitted == 0 - 1

HdrLine(p) == [k |-> "hdr", path |-> p, os |-> 0, ol |-> 0, ns |-> 0, nl |-> 0, text |-> <<>>]
DelLine == [k |-> "del", path |-> <<>>, os |-> 0, ol |-> 0, ns |-> 0, nl |-> 0, text |-> <<>>]
HunkLine(os, ol, ns, nl, tail) ==
  [k |-> "hunk", path |-> <<>>, os |-> os, ol |-> ol, ns |-> ns, nl |-> nl, text |-> tail]
RawLine(t) == [k |-> "raw", path |-> <<>>, os |-> 0, ol |-> 0, ns |-> 0, nl |-> 0, text |-> t]
\* a line of a hunk body: the sign of an added line and the text of the line
BodyLine(t) ==
  [k |-> "body", path |-> <<>>, os |-> 0, ol |-> 0, ns |-> 0, nl |-> 0, text |-> <<"+">> \o t]

\* `start[,len]` of a hunk header
RenderSpan(start, len) == Dec(start) \o (IF len = Omitted THEN <<>> ELSE <<",">> \o Dec(len))

\* the text of one line of a unified diff
Render(l) ==
  CASE l.k = "hdr" -> <<"+", "+", "+", " ", "b", "/">> \o l.path
    [] l.k = "del" -> <<"+", "+", "+", " ", "/", "d", "e", "v", "/", "n", "u", "l", "l">>
    [] l.k = "hunk" -> <<"@", "@", " ", "-">> \o RenderSpan(l.os, l.ol) \o <<" ", "+">> \o RenderSpan(l.ns, l.nl)
                         \o <<" ", "@", "@">> \o l.text
    [] l.k = "raw" -> l.text
    [] l.k = "body" -> l.text

RenderDiff(ls) == join([i \in 1..Len(ls) |-> Render(ls[i])])

\* target paths of new-file headers: a file a, a file dev/null, the path
\* /dev/null that the code compares with (written `+++ b//dev/null`), and a
\* file named like a member of Object.prototype
HeaderPaths == {<<"a">>, <<"d", "e", "v", "/", "n", "u", "l", "l">>, <<"/", "d", "e", "v", "/", "n", "u", "l", "l">>, <<"v", "a", "l", "u", "e", "O", "f">>}

HunkLines == {
  HunkLine(1, Omitted, 1, Omitted, <<>>),
  HunkLine(1, 2, 0, 0, <<>>),
  HunkLine(0, 0, 0, 2, <<>>),
  HunkLine(9, 11, 12, 10, <<" ", "f">>) }

\* header lines, hunk headers, a hunk header the regular expression rejects, and
\* added lines of a hunk body: the text x, and the text `++ b/x`
DiffLines ==
  {HdrLine(p) : p \in HeaderPaths} \cup {DelLine} \cup HunkLines
    \cup {RawLine(<<"@", "@", " ", "-", "1", " ", "+", "x", " ", "@", "@">>)}
    \cup {BodyLine(<<"x">>), BodyLine(<<"+", "+", " ", "b", "/", "x">>)}

\* the sequences over S of length n at most
SeqsUpTo(S, n) == UNION {[1..k -> S] : k \in 0..n}

(***************************************************************************)
(* State.                                                                  *)
(***************************************************************************)
VARIABLES
  \* one call of parseDiffToValidLineRanges, line by line
  pdiff,      \* the line descriptors the diff text was written from
  plines,     \* const lines = diff.split('\n')
  pidx,       \* the 1-based index of the line the loop is at
  pst,        \* the locals ranges and currentFile, and whether a TypeError was thrown
  ppc,        \* "loop", "returned" or "thrown"
  \* one call of parseGitHubUrl
  uin,        \* the parts the URL text was written from
  ures,       \* the value returned: null or a PrData
  upc,        \* "call" or "returned"
  \* one call of handleGenerateCopilotPrompt, up to its request
  sfetch,     \* how the finding's file was fetched, and where its block stands
  sline,      \* the line of the finding
  sres,       \* whether the content was found, and the snippet cut
  spc,        \* "call" or "returned"
  \* the App component
  creds,      \* which of the credentials localStorage / the environment hold
  prUrl,
  review, testSuggestions, prContext, loading, loadingStep, error, apiLogs,
  masterFilesContent,
  \* one run of handleReview
  pc,         \* the suspension point the run is at, "idle" when no run is active
  run,        \* the locals of handleReview and of generateReview
  aiRequests, \* the requests of this run to the AI endpoint, in the order issued
  inflight,   \* the requests to the AI endpoint that have no response yet
  ghRequests, \* the requests of this run to the source-control host, in the order issued
  outcome,    \* how the last run ended: "none", "running", "ok" or "failed"
  \* the follow-up operations: test suggestions, fix prompt, test prompt
  copilotPrompt, showCopilotModal, isGeneratingPromptFor, isGeneratingTestPromptFor,
  ops         \* the calls of follow-up handlers that await the AI endpoint

parserVars == <<pdiff, plines, pidx, pst, ppc>>
urlVars == <<uin, ures, upc>>
snipVars == <<sfetch, sline, sres, spc>>
pureVars == <<parserVars, urlVars, snipVars>>
appVars == <<creds, prUrl, review, testSuggestions, prContext, loading, loadingStep, error,
             apiLogs, masterFilesContent, pc, run, aiRequests, inflight, ghRequests, outcome,
             copilotPrompt, showCopilotModal, isGeneratingPromptFor, isGeneratingTestPromptFor,
             ops>>
followVars == <<copilotPrompt, showCopilotModal, isGeneratingPromptFor,
                isGeneratingTestPromptFor, ops>>
vars == <<pureVars, appVars>>

(***************************************************************************)
(* parseGitHubUrl (utils/helpers.ts).  An optional value is a sequence of  *)
(* length 0 (null) or 1.                                                   *)
(***************************************************************************)
\* the position after the longest run of characters other than "/" that starts at i
RECURSIVE NonSlashEnd(_, _)
NonSlashEnd(s, i) == IF i <= Len(s) /\ s[i] # "/" THEN NonSlashEnd(s, i + 1) ELSE i

\* /github\.com\/([^/]+)\/([^/]+)\/pull\/(\d+)/ tried at the 1-based position i
urlRegexAt(s, i) ==
  LET a == i + 11
      b == NonSlashEnd(s, a)
      c == b + 1
      d == NonSlashEnd(s, c)
      e == d + 6
      f == DigitsEnd(s, e)
  IN  IF /\ LitAt(s, i, <<"g", "i", "t", "h", "u", "b", ".", "c", "o", "m", "/">>)
         /\ b > a
         /\ LitAt(s, b, <<"/">>)
         /\ d > c
         /\ LitAt(s, d, <<"/", "p", "u", "l", "l", "/">>)
         /\ f > e
      THEN <<[owner |-> SubSeq(s, a, b - 1), repo |-> SubSeq(s, c, d - 1),
              pull_number |-> parseInt(SubSeq(s, e, f - 1))]>>
      ELSE <<>>

\* parseGitHubUrl with a PrData of empty parts returned for a text without match
parseGitHubUrlLenient(url) ==
  LET hits == {i \in 1..Len(url) : urlRegexAt(url, i) # <<>>}
  IN  IF hits = {} THEN <<[owner |-> <<>>, repo |-> <<>>, pull_number |-> 0]>>
      ELSE urlRegexAt(url, CHOOSE i \in hits : \A j \in hits : i <= j)

\* parseGitHubUrl with the regular expression tried at the start of the text only
parseGitHubUrlAtStart(url) == urlRegexAt(url, 1)

\* url.match(regex): the leftmost match becomes the PrData, no match is null
parseGitHubUrl(url) ==
  LET hits == {i \in 1..Len(url) : urlRegexAt(url, i) # <<>>}
  IN  IF hits = {} THEN <<>>
      ELSE urlRegexAt(url, CHOOSE i \in hits : \A j \in hits : i <= j)

(***************************************************************************)
(* Review validation (App.handleReview).                                   *)
(***************************************************************************)
\* isInRange with the first line of a range left out
isInRangeStrict(item, range) == item.line > range.start /\ item.line <= range.end

\* range => item.line >= range.start && item.line <= range.end
isInRange(item, range) == item.line >= range.start /\ item.line <= range.end

\* the callback of aiReview.improvements.filter: "keep", "drop", or "throw"
\* when changedLineRanges[item.file] is a truthy member without a method `some`
keepFinding(table, item) ==
  LET fileRanges == Get(table, item.file)
  IN  IF ~Truthy(fileRanges) THEN "drop"
      ELSE IF fileRanges.kind # "array" THEN "throw"
      ELSE IF \E i \in 1..Len(fileRanges.val) : isInRange(item, fileRanges.val[i])
           THEN "keep" ELSE "drop"

\* filterFrom with every kept item put before the items kept so far
RECURSIVE filterFromReversed(_, _, _, _)
filterFromReversed(table, items, i, kept) ==
  IF i > Len(items) THEN [thrown |-> FALSE, kept |-> kept]
  ELSE LET verdict == keepFinding(table, items[i])
       IN  IF verdict = "throw" THEN [thrown |-> TRUE, kept |-> <<>>]
           ELSE filterFromReversed(table, items, i + 1,
                                   IF verdict = "keep" THEN <<items[i]>> \o kept ELSE kept)

\* Array.prototype.filter with that callback, item by item; a throw ends it
RECURSIVE filterFrom(_, _, _, _)
filterFrom(table, items, i, kept) ==
  IF i > Len(items) THEN [thrown |-> FALSE, kept |-> kept]
  ELSE LET verdict == keepFinding(table, items[i])
       IN  IF verdict = "throw" THEN [thrown |-> TRUE, kept |-> <<>>]
           ELSE filterFrom(table, items, i + 1,
                           IF verdict = "keep" THEN Append(kept, items[i]) ELSE kept)

\* filterImprovements with the last kept item left out
filterImprovementsDropLast(table, items) ==
  LET r == filterFrom(table, items, 1, <<>>)
  IN  [thrown |-> r.thrown,
       kept |-> IF r.kept = <<>> THEN <<>> ELSE SubSeq(r.kept, 1, Len(r.kept) - 1)]

filterImprovements(table, items) == filterFrom(table, items, 1, <<>>)

(***************************************************************************)
(* Texts of the AI endpoint.  A text is its characters (raw, an opaque     *)
(* name) and the value JSON.parse gives for it: none when the text is not  *)
(* JSON.  A value holds the members the code reads.                        *)
(***************************************************************************)
Text(raw, json) == [raw |-> raw, json |-> json]

ReviewValue(imps) == [hasImprovements |-> TRUE, strengths |-> <<"good">>, improvements |-> imps]

\* the JSON text {} : an object without the member `improvements`
EmptyObjectValue == [hasImprovements |-> FALSE, strengths |-> <<>>, improvements |-> <<>>]

\* JSON.parse(text): the value, or a SyntaxError
JSONparse(text) ==
  IF text.json # <<>> THEN [ok |-> TRUE, value |-> text.json[1]]
  ELSE [ok |-> FALSE, value |-> EmptyObjectValue]

(***************************************************************************)
(* The texts given to parseGitHubUrl, written from their parts.            *)
(***************************************************************************)
UrlText(u) ==
  u.scheme \o u.host \o <<"/">> \o u.owner \o <<"/">> \o u.repo \o u.sep \o u.num \o u.tail

\* PR URLs and their neighbours: another scheme or none, another host, an
\* empty owner or repository, another path segment than pull, a number with
\* leading zeros or no number, and text after the number
UrlParts ==
  [scheme : {<<"h", "t", "t", "p", "s", ":", "/", "/">>, <<"h", "t", "t", "p", ":", "/", "/">>, <<>>},
   host : {<<"g", "i", "t", "h", "u", "b", ".", "c", "o", "m">>, <<"g", "i", "t", "l", "a", "b", ".", "c", "o", "m">>},
   owner : {<<"o">>, <<>>},
   repo : {<<"r">>, <<>>},
   sep : {<<"/", "p", "u", "l", "l", "/">>, <<"/", "i", "s", "s", "u", "e", "s", "/">>},
   num : {<<"4", "2">>, <<"0", "0", "7">>, <<>>},
   tail : {<<>>, <<"x">>, <<"/", "f", "i", "l", "e", "s">>}]

\* no call of parseDiffToValidLineRanges is modelled
ParserIdle == pdiff = <<>> /\ plines = <<<<>>>> /\ pidx = 1 /\ pst = parserInit /\ ppc = "loop"

\* no call of parseGitHubUrl is modelled
UrlIdle == uin = <<>> /\ ures = <<>> /\ upc = "idle"

\* no call of handleGenerateCopilotPrompt is modelled apart from the App
SnippetIdle == sfetch = <<>> /\ sline = 0 /\ sres = <<>> /\ spc = "idle"

(***************************************************************************)
(* The App component before any run (the useState initial values).         *)
(***************************************************************************)
\* the locals of a run before they are assigned; rejected records the stages
\* whose request the AI endpoint rejected, order the indices of the findings
\* in the order their digests were ready
RunInit == [prData |-> <<>>, diff |-> <<>>, readme |-> "", files |-> <<>>, fileQueue |-> <<>>,
            contextSummary |-> <<>>, initialReviewText |-> <<>>, aiReview |-> <<>>,
            validated |-> FALSE, valid |-> <<>>, pending |-> {}, links |-> <<>>,
            order |-> <<>>, rejected |-> {}]

\* the useState initial values, but for the URL input
AppStart ==
  /\ review = <<>> /\ testSuggestions = <<>> /\ prContext = <<>>
  /\ loading = FALSE /\ loadingStep = "" /\ error = <<>>
  /\ apiLogs = <<>> /\ masterFilesContent = <<>>
  /\ pc = "idle" /\ run = RunInit
  /\ aiRequests = <<>> /\ inflight = {} /\ ghRequests = <<>>
  /\ outcome = "none"
  /\ copilotPrompt = <<>> /\ showCopilotModal = FALSE
  /\ isGeneratingPromptFor = <<>> /\ isGeneratingTestPromptFor = <<>>
  /\ ops = <<>>

AppInit ==
  /\ creds \in [gemini : BOOLEAN, github : BOOLEAN]
  /\ prUrl = <<>>
  /\ AppStart

(***************************************************************************)
(* Specification SpecParse: parseDiffToValidLineRanges on every diff of at *)
(* most MaxLines lines over DiffLines, one loop iteration per step.        *)
(***************************************************************************)
ParseInit ==
  /\ pdiff \in SeqsUpTo(DiffLines, MaxLines)
  /\ \E text \in {RenderDiff(pdiff)} : plines = split(text)
  /\ pidx = 1
  /\ pst = parserInit
  /\ ppc = "loop"
  /\ AppInit /\ creds = [gemini |-> TRUE, github |-> TRUE]
  /\ UrlIdle
  /\ SnippetIdle

\* the line the loop is at
CurLine == plines[pidx]

InLoop == ppc = "loop" /\ pidx <= Len(plines)

\* an iteration that takes the branch of a new-file header
ParseHeaderLine ==
  /\ InLoop /\ isHeaderLine(CurLine)
  /\ pst' = onHeaderLine(pst, CurLine)
  /\ pidx' = pidx + 1
  /\ UNCHANGED <<pdiff, plines, ppc, appVars, urlVars, snipVars>>

\* an iteration that takes the branch of a hunk header; the push may throw
ParseHunkLine ==
  /\ InLoop /\ isHunkLine(pst, CurLine)
  /\ pst' = onHunkLine(pst, CurLine)
  /\ pidx' = pidx + 1
  /\ ppc' = IF pst'.thrown THEN "thrown" ELSE ppc
  /\ UNCHANGED <<pdiff, plines, appVars, urlVars, snipVars>>

\* an iteration that takes neither branch
ParseOtherLine ==
  /\ InLoop /\ ~isHeaderLine(CurLine) /\ ~isHunkLine(pst, CurLine)
  /\ pidx' = pidx + 1
  /\ UNCHANGED <<pdiff, plines, pst, ppc, appVars, urlVars, snipVars>>

\* return ranges
ParseReturn ==
  /\ ppc = "loop" /\ pidx > Len(plines)
  /\ ppc' = "returned"
  /\ UNCHANGED <<pdiff, plines, pidx, pst, appVars, urlVars, snipVars>>

ParseNext == ParseHeaderLine \/ ParseHunkLine \/ ParseOtherLine \/ ParseReturn

SpecParse == ParseInit /\ [][ParseNext]_vars

(***************************************************************************)
(* Claims about parseDiffToValidLineRanges, under SpecParse.               *)
(***************************************************************************)
Returned == ppc = "returned"

\* the descriptor of the line the loop is at (the empty diff has one empty line
\* and no descriptor)
AtDescriptor == InLoop /\ pidx <= Len(pdiff)

\* the paths of the new-file headers of the diff whose target is not /dev/null
HeaderPathsOf(d) == {d[i].path : i \in {j \in 1..Len(d) : d[j].k = "hdr" /\ d[j].path # DevNull}}

\* C2: a path is a key of the returned table iff the diff has a new-file
\* header for it whose target is not /dev/null.
C2_KeysAreHeaderPaths == Returned => DOMAIN pst.ranges = HeaderPathsOf(pdiff)

\* the range C3 states for a hunk header
ClaimedRange(h) == [start |-> h.ns, end |-> IF h.nl = Omitted THEN h.ns ELSE h.ns + h.nl - 1]

\* C3: an iteration on a hunk header, with the cursor set, appends [newStart,
\* newStart] when the length is omitted, nothing when it is 0, and [newStart,
\* newStart + newLen - 1] otherwise, to the list of the cursor's file.
C3_HunkYieldsRange ==
  [][(AtDescriptor /\ pdiff[pidx].k = "hunk" /\ pst.currentFile # <<>>) =>
       LET h == pdiff[pidx]
           cf == pst.currentFile[1]
           old == Get(pst.ranges, cf)
       IN  IF h.nl = 0 THEN pst'.ranges = pst.ranges /\ ~pst'.thrown
           ELSE /\ ~pst'.thrown
                /\ pst'.ranges =
                     Put(pst.ranges, cf,
                         Append(IF old.kind = "array" THEN old.val ELSE <<>>, ClaimedRange(h)))
    ]_vars

\* every range of every list of a table
RangesOf(table) == UNION {{table[f][i] : i \in 1..Len(table[f])} : f \in DOMAIN table}

\* the new starts that the hunk headers of a diff declare
DeclaredStarts(d) == {d[i].ns : i \in {j \in 1..Len(d) : d[j].k = "hunk"}}

\* C4 as stated: every range of the returned table has 1 <= start <= end.
C4_RangeStartsAtOne == Returned => \A r \in RangesOf(pst.ranges) : 1 <= r.start /\ r.start <= r.end

\* C4, amended: every range of the returned table has 0 <= start <= end, its
\* start is the new start a hunk header of the diff declares, and so start >= 1
\* unless a hunk header declares the new start 0.
C4_RangeWellFormed ==
  Returned => \A r \in RangesOf(pst.ranges) :
                /\ 0 <= r.start /\ r.start <= r.end
                /\ r.start \in DeclaredStarts(pdiff)
                /\ (r.start = 0 => 0 \in DeclaredStarts(pdiff))

\* a table is returned that holds a range that starts at line 0 and a range
\* of several lines that starts at a later line
C4_Witness ==
  /\ Returned
  /\ \E r \in RangesOf(pst.ranges) : r.start = 0 /\ r.end > 0
  /\ \E r \in RangesOf(pst.ranges) : r.start >= 1 /\ r.end > r.start

\* the index of the last new-file header line (of either kind) before line i, 0 if none
LastHeaderBefore(d, i) ==
  LET hs == {j \in 1..(i - 1) : d[j].k \in {"hdr", "del"}}
  IN  IF hs = {} THEN 0 ELSE CHOOSE j \in hs : \A k \in hs : k <= j

\* C5: an iteration on the header of a deleted file (`+++ /dev/null`) clears
\* the cursor, and an iteration on a hunk header that follows it, before the
\* next header of a real path, adds no range to any file.
C5_DeletedHeaderClearsCursor ==
  [][(AtDescriptor /\ pdiff[pidx].k = "del" => pst'.currentFile = <<>>)
     /\ (AtDescriptor /\ pdiff[pidx].k = "hunk"
           /\ LastHeaderBefore(pdiff, pidx) # 0
           /\ pdiff[LastHeaderBefore(pdiff, pidx)].k = "del"
         => pst'.ranges = pst.ranges)
    ]_vars

\* C6: a diff with the header line `+++ b/dev/null` gets no entry in the
\* returned table for that header, whatever hunk headers follow it.
C6_NoEntryForDevNullHeader ==
  Returned /\ (\E i \in 1..Len(pdiff) : pdiff[i] = HdrLine(<<"d", "e", "v", "/", "n", "u", "l", "l">>))
    => <<"d", "e", "v", "/", "n", "u", "l", "l">> \notin DOMAIN pst.ranges

(***************************************************************************)
(* The collaborators of a review run: what the source-control host and the *)
(* AI endpoint may answer.                                                 *)
(***************************************************************************)
\* most findings in one review of the AI endpoint
MaxFindings == 2

\* the text of the PR URL input
Urls == {<<>>, <<"h", "t", "t", "p", "s", ":", "/", "/", "g", "i", "t", "h", "u", "b", ".", "c", "o", "m", "/", "o", "/", "r", "/", "p", "u", "l", "l", "/", "4", "2">>}

\* the diffs the host may return, as line descriptors: one hunk of five lines;
\* two files, the header of the first repeated, with the header of a deleted
\* file; a file named like a member of Object.prototype; no file
AppDiffLines == {
  <<HdrLine(<<"a">>), HunkLine(1, 3, 1, 5, <<>>)>>,
  <<HdrLine(<<"c">>), HdrLine(<<"a">>), HunkLine(1, Omitted, 1, Omitted, <<>>), DelLine,
    HunkLine(1, 2, 0, 0, <<>>), HdrLine(<<"c">>)>>,
  <<HdrLine(<<"v", "a", "l", "u", "e", "O", "f">>), HunkLine(1, Omitted, 1, Omitted, <<>>)>>,
  <<>> }

AppDiffs == {RenderDiff(d) : d \in AppDiffLines}

Finding(file, line) == [line |-> line, file |-> file, category |-> "Style", comment |-> "c"]

\* findings inside and outside the hunks, in a file absent from every diff, and
\* in a file named like a member of Object.prototype
Findings == {Finding(<<"a">>, 1), Finding(<<"a">>, 5), Finding(<<"a">>, 6), Finding(<<"b">>, 1),
             Finding(<<"v", "a", "l", "u", "e", "O", "f">>, 1)}

\* the message of a rejected request; a rejection may carry no message
ErrMsgs == {"", "Request failed"}

\* the summary of stage 1
SummaryText == Text("summary", <<>>)

\* a text that is not JSON
GarbageText == Text("not json", <<>>)

ReviewTexts == {Text("review", <<ReviewValue(imps)>>) : imps \in SeqsUpTo(Findings, MaxFindings)}

\* what stage 2 may answer
InitialTexts == {GarbageText, Text("review", <<ReviewValue(<<Finding(<<"a">>, 1)>>)>>)}

(***************************************************************************)
(* githubService (services/githubService.ts).                              *)
(***************************************************************************)
\* Distinct with every occurrence kept
DistinctNot(q) == q

\* keep the first occurrence of every element: [...new Set(paths)]
RECURSIVE Distinct(_)
Distinct(q) ==
  IF q = <<>> THEN <<>>
  ELSE LET init == Distinct(SubSeq(q, 1, Len(q) - 1))
           last == q[Len(q)]
       IN  IF \E i \in 1..Len(init) : init[i] = last THEN init ELSE Append(init, last)

\* the paths getChangedFilesContent fetches: the rest of every `+++ b/` line
changedFilePaths(diff) ==
  LET lines == split(diff)
      hdrs == SelectSeq(lines, isHeaderLine)
  IN  Distinct([i \in 1..Len(hdrs) |-> substring(hdrs[i], 6)])

\* the content of every changed file at the base branch, in the review runs
FileContent == <<"x", "\n", "y", "\n", "z", "\n">>

NewFileNote == <<"(", "T", "h", "i", "s", " ", "i", "s", " ", "a", " ", "n", "e", "w", " ", "f", "i", "l", "e", " ", "o", "r", " ", "c", "o", "u", "l", "d", " ", "n", "o", "t", " ", "b", "e", " ", "f", "e", "t", "c", "h", "e", "d", " ", "f", "r", "o", "m", " ", "t", "h", "e", " ", "b", "a", "s", "e", " ", "b", "r", "a", "n", "c", "h", ".", ")">>

FetchErrorNote == <<"(", "E", "r", "r", "o", "r", " ", "f", "e", "t", "c", "h", "i", "n", "g", " ", "f", "i", "l", "e", " ", "c", "o", "n", "t", "e", "n", "t", ".", ")">>

\* the block appended to masterFilesContent for one file, as its path and the
\* text between its header line and the two newlines that end it
fileBlockWith(filePath, fetched, content) ==
  [file |-> filePath,
   body |-> CASE fetched = "ok" -> content
              [] fetched = "not ok" -> NewFileNote
              [] fetched = "error" -> FetchErrorNote]

fileBlock(filePath, fetched) == fileBlockWith(filePath, fetched, FileContent)

\* the text of masterFilesContent, each block being
\* `--- File: ${filePath} ---\n${content}\n\n`
RECURSIVE masterText(_)
masterText(blocks) ==
  IF blocks = <<>> THEN <<>>
  ELSE <<"-", "-", "-", " ", "F", "i", "l", "e", ":", " ">> \o Head(blocks).file
         \o <<" ", "-", "-", "-", "\n">> \o Head(blocks).body \o <<"\n", "\n">>
         \o masterText(Tail(blocks))

\* what getReadmeContent returns
readmeContent(found) == IF found THEN "readme" ELSE "README.md not found in the repository."

(***************************************************************************)
(* geminiService.generateReview (services/geminiService.ts): the prompts   *)
(* of the three stages, as the values they embed, and the log entries.     *)
(***************************************************************************)
contextPrompt(readme, files, diff) ==
  [title |-> "title", body |-> "body", readme |-> readme, files |-> files, diff |-> diff,
   summary |-> <<>>, initial |-> <<>>]

initialPrompt(summary, diff) ==
  [title |-> "", body |-> "", readme |-> "", files |-> <<>>, diff |-> diff,
   summary |-> <<summary>>, initial |-> <<>>]

refinementPrompt(summary, initialReviewText, diff) ==
  [title |-> "", body |-> "", readme |-> "", files |-> <<>>, diff |-> diff,
   summary |-> <<summary>>, initial |-> <<initialReviewText>>]

\* logInteraction's entry with the prompt left out
logEntryResponseOnly(step, prompt, response) ==
  [step |-> step, prompt |-> <<>>, response |-> response]

\* logInteraction's entry (the timestamp is left out)
logEntry(step, prompt, response) == [step |-> step, prompt |-> prompt, response |-> response]

\* the loading step the log callback of handleReview sets
stepAfterLog(step) ==
  IF step = "Context Gathering" THEN "Performing initial analysis..." ELSE "Refining review..."

(***************************************************************************)
(* sha1 and the deep link (utils/helpers.ts, App.handleReview).            *)
(***************************************************************************)
\* the hex digest of a string, as a term over the string
sha1(str) == [digest |-> "SHA-1", of |-> str]

\* linkOf with a hash segment that takes the line in
linkOfLineInHash(prData, hash, line) ==
  [base |-> "https://github.com", owner |-> prData.owner, repo |-> prData.repo,
   pull_number |-> prData.pull_number, hash |-> sha1(hash.of \o Dec(line)),
   line |-> line]

\* `https://github.com/${owner}/${repo}/pull/${pull_number}/files#diff-${hash}R${line}`
linkOf(prData, hash, line) ==
  [base |-> "https://github.com", owner |-> prData.owner, repo |-> prData.repo,
   pull_number |-> prData.pull_number, hash |-> hash, line |-> line]

\* { ...item, link }
withLink(item, link) ==
  [line |-> item.line, file |-> item.file, category |-> item.category,
   comment |-> item.comment, link |-> link]

(***************************************************************************)
(* App.handleReview, one action per run of the handler between two         *)
(* suspension points (awaits).                                             *)
(***************************************************************************)
\* catchMessage without the fallback text
catchMessageRaw(msg) == msg

\* err.message || 'An unknown error occurred.'
catchMessage(msg) == IF msg = "" THEN "An unknown error occurred." ELSE msg

\* the catch and finally blocks of handleReview
Caught(msg) ==
  /\ error' = <<catchMessage(msg)>>
  /\ loading' = FALSE
  /\ loadingStep' = ""
  /\ pc' = "idle"
  /\ outcome' = "failed"

\* the input of the PR URL is edited
SetPrUrl ==
  /\ \E u \in Urls : prUrl' = u /\ u # prUrl
  /\ UNCHANGED <<pureVars, followVars, creds, review, testSuggestions, prContext, loading, loadingStep,
                 error, apiLogs, masterFilesContent, pc, run, aiRequests, inflight, ghRequests,
                 outcome>>

\* Settings.handleSave: the stored credentials are replaced
SaveSettings ==
  /\ \E c \in [gemini : BOOLEAN, github : BOOLEAN] : creds' = c /\ c # creds
  /\ UNCHANGED <<pureVars, followVars, prUrl, review, testSuggestions, prContext, loading, loadingStep,
                 error, apiLogs, masterFilesContent, pc, run, aiRequests, inflight, ghRequests,
                 outcome>>

\* the button "Perform Deep Review" (disabled while loading): the state is
\* reset, the URL parsed, and getPrData checks the token and issues pulls.get;
\* the follow-up calls that await go on
ClickReview ==
  /\ ~loading /\ pc = "idle"
  /\ review' = <<>> /\ testSuggestions' = <<>> /\ prContext' = <<>>
  /\ apiLogs' = <<>> /\ masterFilesContent' = <<>>
  /\ aiRequests' = <<>> /\ inflight' = {}
  /\ LET prData == parseGitHubUrl(prUrl)
     IN  IF prData = <<>>
         THEN /\ Caught("Invalid GitHub PR URL. Please use the format: https://github.com/owner/repo/pull/123")
              /\ run' = RunInit /\ ghRequests' = <<>>
         ELSE IF ~creds.github
         THEN /\ Caught("GitHub token not found.")
              /\ run' = [RunInit EXCEPT !.prData = prData] /\ ghRequests' = <<>>
         ELSE /\ error' = <<>> /\ loading' = TRUE
              /\ loadingStep' = "Fetching PR data..."
              /\ pc' = "prDetails" /\ outcome' = "running"
              /\ run' = [RunInit EXCEPT !.prData = prData]
              /\ ghRequests' = <<"pulls.get">>
  /\ ops' = [i \in 1..Len(ops) |-> [ops[i] EXCEPT !.stale = TRUE]]
  /\ UNCHANGED <<pureVars, creds, prUrl, copilotPrompt, showCopilotModal, isGeneratingPromptFor,
                 isGeneratingTestPromptFor>>

\* a request to the source-control host is rejected
HostRequestFails ==
  /\ pc \in {"prDetails", "prDiff"}
  /\ \E msg \in ErrMsgs : Caught(msg)
  /\ UNCHANGED <<pureVars, followVars, creds, prUrl, review, testSuggestions, prContext, apiLogs,
                 masterFilesContent, run, aiRequests, inflight, ghRequests>>

\* pulls.get answers with the PR details; getPrData asks for the diff
PrDetailsArrive ==
  /\ pc = "prDetails"
  /\ pc' = "prDiff"
  /\ ghRequests' = Append(ghRequests, "pulls.get diff")
  /\ UNCHANGED <<pureVars, followVars, creds, prUrl, review, testSuggestions, prContext, loading,
                 loadingStep, error, apiLogs, masterFilesContent, run, aiRequests, inflight,
                 outcome>>

\* the diff arrives; getReadmeContent checks the token and asks for README.md
PrDiffArrives ==
  /\ pc = "prDiff"
  /\ \E d \in AppDiffs : run' = [run EXCEPT !.diff = d]
  /\ IF ~creds.github
     THEN Caught("GitHub token not found.") /\ ghRequests' = ghRequests
     ELSE /\ loadingStep' = "Fetching repository context..."
          /\ pc' = "readme"
          /\ ghRequests' = Append(ghRequests, "repos.getContent README.md")
          /\ UNCHANGED <<error, loading, outcome>>
  /\ UNCHANGED <<pureVars, followVars, creds, prUrl, review, testSuggestions, prContext, apiLogs,
                 masterFilesContent, aiRequests, inflight>>

\* generateReview begins, with the locals r and the fetched files: the API key
\* is checked and the request of stage 1 issued
BeginGenerateReview(r, files) ==
  /\ masterFilesContent' = files
  /\ run' = r
  /\ IF ~creds.gemini
     THEN /\ Caught("Gemini API Key not found. Please set it in the settings.")
          /\ UNCHANGED <<aiRequests, inflight>>
     ELSE /\ loadingStep' = "Context gathering..."
          /\ pc' = "stage1"
          /\ aiRequests' = Append(aiRequests, [stage |-> "Context Gathering",
                                               prompt |-> contextPrompt(r.readme, files, r.diff)])
          /\ inflight' = inflight \cup {"Context Gathering"}
          /\ UNCHANGED <<error, loading, outcome>>

\* README.md arrives or is not found (a placeholder); getChangedFilesContent
\* fetches the first changed file, or returns at once when there is none
ReadmeArrives ==
  /\ pc = "readme"
  /\ \E found \in BOOLEAN :
       LET r == [run EXCEPT !.readme = readmeContent(found),
                            !.fileQueue = changedFilePaths(run.diff)]
       IN  IF r.fileQueue = <<>>
           THEN BeginGenerateReview(r, <<>>) /\ ghRequests' = ghRequests
           ELSE /\ run' = r
                /\ pc' = "files"
                /\ ghRequests' = Append(ghRequests, "raw file")
                /\ UNCHANGED <<error, loading, loadingStep, outcome, masterFilesContent,
                               aiRequests, inflight>>
  /\ UNCHANGED <<pureVars, followVars, creds, prUrl, review, testSuggestions, prContext, apiLogs>>

\* the fetch of one changed file ends; the next file is fetched, or
\* generateReview begins
FileFetched ==
  /\ pc = "files"
  /\ \E fetched \in {"ok", "not ok", "error"} :
       LET files == Append(run.files, fileBlock(Head(run.fileQueue), fetched))
           r == [run EXCEPT !.files = files, !.fileQueue = Tail(run.fileQueue)]
       IN  IF r.fileQueue = <<>>
           THEN BeginGenerateReview(r, files) /\ ghRequests' = ghRequests
           ELSE /\ run' = r
                /\ ghRequests' = Append(ghRequests, "raw file")
                /\ UNCHANGED <<error, loading, loadingStep, outcome, masterFilesContent,
                               aiRequests, inflight, pc>>
  /\ UNCHANGED <<pureVars, followVars, creds, prUrl, review, testSuggestions, prContext, apiLogs>>

\* the prompt of the last request issued to the AI endpoint
LastPrompt == aiRequests[Len(aiRequests)].prompt

\* Stage1Responds with the requests of stage 2 and stage 3 issued together
Stage1RespondsEager ==
  /\ pc = "stage1"
  /\ LET summary == SummaryText
     IN  /\ run' = [run EXCEPT !.contextSummary = <<summary>>]
         /\ apiLogs' = Append(apiLogs, logEntry("Context Gathering", LastPrompt, summary))
         /\ loadingStep' = stepAfterLog("Context Gathering")
         /\ aiRequests' = aiRequests \o
                            <<[stage |-> "Initial Review",
                               prompt |-> initialPrompt(summary, run.diff)],
                              [stage |-> "Refinement",
                               prompt |-> refinementPrompt(summary, GarbageText, run.diff)]>>
         /\ inflight' = (inflight \ {"Context Gathering"}) \cup {"Initial Review", "Refinement"}
         /\ pc' = "stage2"
  /\ UNCHANGED <<pureVars, followVars, creds, prUrl, review, testSuggestions, prContext, loading, error,
                 masterFilesContent, ghRequests, outcome>>

\* stage 1 answers: the summary is logged and the request of stage 2 issued
Stage1Responds ==
  /\ pc = "stage1"
  /\ LET summary == SummaryText
     IN  /\ run' = [run EXCEPT !.contextSummary = <<summary>>]
         /\ apiLogs' = Append(apiLogs, logEntry("Context Gathering", LastPrompt, summary))
         /\ loadingStep' = stepAfterLog("Context Gathering")
         /\ aiRequests' = Append(aiRequests, [stage |-> "Initial Review",
                                              prompt |-> initialPrompt(summary, run.diff)])
         /\ inflight' = (inflight \ {"Context Gathering"}) \cup {"Initial Review"}
         /\ pc' = "stage2"
  /\ UNCHANGED <<pureVars, followVars, creds, prUrl, review, testSuggestions, prContext, loading, error,
                 masterFilesContent, ghRequests, outcome>>

\* Stage2Responds with the text of stage 2 parsed: a text that is not JSON
\* ends the run
Stage2RespondsParsed ==
  /\ pc = "stage2"
  /\ \E text \in InitialTexts :
       /\ run' = [run EXCEPT !.initialReviewText = <<text>>]
       /\ apiLogs' = Append(apiLogs, logEntry("Initial Review", LastPrompt, text))
       /\ IF JSONparse(text).ok
          THEN /\ loadingStep' = stepAfterLog("Initial Review")
               /\ aiRequests' = Append(aiRequests,
                                       [stage |-> "Refinement",
                                        prompt |-> refinementPrompt(run.contextSummary[1], text,
                                                                    run.diff)])
               /\ inflight' = (inflight \ {"Initial Review"}) \cup {"Refinement"}
               /\ pc' = "stage3"
               /\ UNCHANGED <<loading, error, outcome>>
          ELSE /\ Caught("Unexpected token in JSON")
               /\ inflight' = inflight \ {"Initial Review"}
               /\ UNCHANGED aiRequests
  /\ UNCHANGED <<pureVars, followVars, creds, prUrl, review, testSuggestions, prContext,
                 masterFilesContent, ghRequests>>

\* stage 2 answers: its text is logged, unparsed, and embedded in the request
\* of stage 3
Stage2Responds ==
  /\ pc = "stage2"
  /\ \E text \in InitialTexts :
       /\ run' = [run EXCEPT !.initialReviewText = <<text>>]
       /\ apiLogs' = Append(apiLogs, logEntry("Initial Review", LastPrompt, text))
       /\ loadingStep' = stepAfterLog("Initial Review")
       /\ aiRequests' = Append(aiRequests,
                               [stage |-> "Refinement",
                                prompt |-> refinementPrompt(run.contextSummary[1], text, run.diff)])
       /\ inflight' = (inflight \ {"Initial Review"}) \cup {"Refinement"}
       /\ pc' = "stage3"
  /\ UNCHANGED <<pureVars, followVars, creds, prUrl, review, testSuggestions, prContext, loading, error,
                 masterFilesContent, ghRequests, outcome>>

\* StageFails with the log of the run emptied by the failure
StageFailsClearingLog(stage, at) ==
  /\ pc = at
  /\ inflight' = inflight \ {stage}
  /\ run' = [run EXCEPT !.rejected = @ \cup {stage}]
  /\ apiLogs' = <<>>
  /\ \E msg \in ErrMsgs : Caught(msg)
  /\ UNCHANGED <<pureVars, followVars, creds, prUrl, review, testSuggestions, prContext,
                 masterFilesContent, aiRequests, ghRequests>>

\* the request of a stage is rejected: generateReview throws, nothing is logged
StageFails(stage, at) ==
  /\ pc = at
  /\ inflight' = inflight \ {stage}
  /\ run' = [run EXCEPT !.rejected = @ \cup {stage}]
  /\ \E msg \in ErrMsgs : Caught(msg)
  /\ UNCHANGED <<pureVars, followVars, creds, prUrl, review, testSuggestions, prContext, apiLogs,
                 masterFilesContent, aiRequests, ghRequests>>

\* a failed stage 1 replaced by a fallback summary, and stage 2 issued
Stage1FailsWithFallback ==
  /\ pc = "stage1"
  /\ run' = [run EXCEPT !.contextSummary = <<Text("fallback", <<>>)>>,
                        !.rejected = @ \cup {"Context Gathering"}]
  /\ aiRequests' = Append(aiRequests, [stage |-> "Initial Review",
                                       prompt |-> initialPrompt(Text("fallback", <<>>), run.diff)])
  /\ inflight' = (inflight \ {"Context Gathering"}) \cup {"Initial Review"}
  /\ pc' = "stage2"
  /\ UNCHANGED <<pureVars, followVars, creds, prUrl, review, testSuggestions, prContext, loading, error,
                 loadingStep, apiLogs, masterFilesContent, ghRequests, outcome>>

Stage1Fails == StageFails("Context Gathering", "stage1")

Stage2Fails == StageFails("Initial Review", "stage2")

Stage3Fails == StageFails("Refinement", "stage3")

\* setReview(finalReview) and the finally block
Completed(strengths, improvements) ==
  /\ review' = <<[strengths |-> strengths, improvements |-> improvements]>>
  /\ loading' = FALSE
  /\ loadingStep' = ""
  /\ pc' = "idle"
  /\ outcome' = "ok"
  /\ error' = error

\* what follows the answer of stage 3 in generateReview and handleReview, up to
\* the await of Promise.all: "syntax", "push", "filter" and "some" name the error
\* thrown, "ok" carries the validated improvements
afterRefinement(text, diff) ==
  LET parsed == JSONparse(text)
      table == parseDiffToValidLineRanges(diff)
      filtered == filterImprovements(table.ranges, parsed.value.improvements)
  IN  IF ~parsed.ok THEN [kind |-> "syntax", kept |-> <<>>]
      ELSE IF table.thrown THEN [kind |-> "push", kept |-> <<>>]
      ELSE IF ~parsed.value.hasImprovements THEN [kind |-> "filter", kept |-> <<>>]
      ELSE IF filtered.thrown THEN [kind |-> "some", kept |-> <<>>]
      ELSE [kind |-> "ok", kept |-> filtered.kept]

\* the message of the error thrown after the answer of stage 3
thrownMessage(kind) ==
  CASE kind = "syntax" -> "Unexpected token in JSON"
    [] kind = "push" -> "ranges[currentFile].push is not a function"
    [] kind = "filter" -> "Cannot read properties of undefined (reading 'filter')"
    [] kind = "some" -> "fileRanges.some is not a function"

\* stage 3 answers: its text is logged and parsed, the review validated against
\* the ranges of the diff, the PR context set, and one digest per surviving
\* finding started
Stage3Responds ==
  /\ pc = "stage3"
  /\ \E text \in {GarbageText, Text("{}", <<EmptyObjectValue>>)} \cup ReviewTexts :
       \E res \in {afterRefinement(text, run.diff)} :
         /\ apiLogs' = Append(apiLogs, logEntry("Refinement", LastPrompt, text))
         /\ inflight' = inflight \ {"Refinement"}
         /\ IF res.kind # "ok"
            THEN /\ Caught(thrownMessage(res.kind))
                 /\ run' = [run EXCEPT !.aiReview = IF res.kind = "syntax" THEN <<>>
                                                    ELSE <<JSONparse(text).value>>]
                 /\ UNCHANGED <<review, prContext>>
            ELSE /\ prContext' = <<[summary |-> run.contextSummary[1], diff |-> run.diff]>>
                 /\ run' = [run EXCEPT !.aiReview = <<JSONparse(text).value>>,
                                       !.validated = TRUE,
                                       !.valid = res.kept,
                                       !.pending = 1..Len(res.kept),
                                       !.links = [i \in 1..Len(res.kept) |-> <<>>]]
                 /\ IF res.kept = <<>>
                    THEN Completed(JSONparse(text).value.strengths, <<>>)
                    ELSE /\ loadingStep' = "Finalizing links..."
                         /\ pc' = "linking"
                         /\ UNCHANGED <<review, loading, error, outcome>>
  /\ UNCHANGED <<pureVars, followVars, creds, prUrl, testSuggestions, masterFilesContent, aiRequests,
                 ghRequests>>

\* DigestResolves with the links assembled in the order the digests were ready
DigestResolvesInCompletionOrder ==
  /\ pc = "linking"
  /\ \E i \in run.pending :
       LET link == linkOf(run.prData[1], sha1(run.valid[i].file), run.valid[i].line)
           links == [run.links EXCEPT ![i] = <<link>>]
           left == run.pending \ {i}
           order == Append(run.order, i)
       IN  /\ run' = [run EXCEPT !.links = links, !.pending = left, !.order = order]
           /\ IF left = {}
              THEN Completed(run.aiReview[1].strengths,
                             [j \in 1..Len(run.valid) |->
                                withLink(run.valid[order[j]], links[order[j]][1])])
              ELSE UNCHANGED <<review, loading, loadingStep, pc, outcome, error>>
  /\ UNCHANGED <<pureVars, followVars, creds, prUrl, testSuggestions, prContext, apiLogs,
                 masterFilesContent, aiRequests, inflight, ghRequests>>

\* the digest of one finding's file path is ready; when it is the last one,
\* Promise.all resolves and the linked review is set
DigestResolves ==
  /\ pc = "linking"
  /\ \E i \in run.pending :
       LET link == linkOf(run.prData[1], sha1(run.valid[i].file), run.valid[i].line)
           links == [run.links EXCEPT ![i] = <<link>>]
           left == run.pending \ {i}
       IN  /\ run' = [run EXCEPT !.links = links, !.pending = left,
                                 !.order = Append(@, i)]
           /\ IF left = {}
              THEN Completed(run.aiReview[1].strengths,
                             [j \in 1..Len(run.valid) |-> withLink(run.valid[j], links[j][1])])
              ELSE UNCHANGED <<review, loading, loadingStep, pc, outcome, error>>
  /\ UNCHANGED <<pureVars, followVars, creds, prUrl, testSuggestions, prContext, apiLogs,
                 masterFilesContent, aiRequests, inflight, ghRequests>>

\* a digest is rejected: Promise.all rejects
DigestRejects ==
  /\ pc = "linking"
  /\ \E msg \in ErrMsgs : Caught(msg)
  /\ UNCHANGED <<pureVars, followVars, creds, prUrl, review, testSuggestions, prContext, apiLogs,
                 masterFilesContent, run, aiRequests, inflight, ghRequests>>

(***************************************************************************)
(* The follow-up operations of App: handleSuggestTests,                    *)
(* handleGenerateCopilotPrompt and handleGenerateTestPrompt, with the      *)
(* functions of geminiService they call.  A call that awaits the AI        *)
(* endpoint is an element of ops.                                          *)
(***************************************************************************)
\* most follow-up requests that the log and the calls awaiting hold together
MaxFollowUps == 2

KeyMissingMessage == "Gemini API Key not found. Please set it in the settings."

\* a parsed answer of generateTestSuggestions
SuggestionsValue == [unitTests |-> <<"t">>, integrationTests |-> <<>>, manualChecks |-> <<>>]

\* what the AI endpoint may answer to the two prompt generators
PromptTexts == {Text("prompt", <<>>)}

\* the prompts of the follow-up requests, as the values they embed
testPrompt(summary, diff) == [summary |-> summary, diff |-> diff]

copilotFixPrompt(improvement, codeSnippet) ==
  [improvement |-> improvement, codeSnippet |-> codeSnippet]

testCreationPrompt(suggestion, category, summary, diff) ==
  [suggestion |-> suggestion, category |-> category, summary |-> summary, diff |-> diff]

\* finalPromptForUser: the generated text followed by the context of the request
finalPromptForUser(generated, prompt) == [generated |-> generated, context |-> prompt]

\* masterFilesContent.match(fileBlockRegex)[1] for a path without regular
\* expression metacharacters: after the leftmost header line of the file, the
\* shortest text that is followed by `\n--- File:` or ends the content; <<>> is
\* no match
fileBlockMatch(content, file) ==
  LET text == masterText(content)
      hdr == <<"-", "-", "-", " ", "F", "i", "l", "e", ":", " ">> \o file \o <<" ", "-", "-", "-", "\n">>
      starts == {i \in 1..Len(text) : LitAt(text, i, hdr)}
  IN  IF starts = {} THEN <<>>
      ELSE LET from == Least(starts) + Len(hdr)
               ends == {j \in from..(Len(text) + 1) :
                          j = Len(text) + 1 \/ LitAt(text, j, <<"\n">> \o <<"-", "-", "-", " ", "F", "i", "l", "e", ":">>)}
           IN  <<SubSeq(text, from, Least(ends) - 1)>>

contextLines == 5

\* the lines around the finding's line, cut from the captured text;
\* lines.slice(start, end) takes the 0-based indices start..end-1
codeSnippetOf(fileContent, line) ==
  LET lines == split(fileContent)
      lineIndex == line - 1
      start == IF lineIndex - contextLines < 0 THEN 0 ELSE lineIndex - contextLines
      end == IF lineIndex + contextLines + 1 > Len(lines) THEN Len(lines)
             ELSE lineIndex + contextLines + 1
  IN  join(SubSeq(lines, start + 1, end))

\* handleGenerateCopilotPrompt up to the call of generateCopilotFixPrompt: the
\* error thrown, or the snippet passed
snippetFor(content, improvement) ==
  LET match == fileBlockMatch(content, improvement.file)
  IN  IF match = <<>> \/ match = <<<<>>>>
      THEN [found |-> FALSE, codeSnippet |-> <<>>]
      ELSE [found |-> TRUE, codeSnippet |-> codeSnippetOf(match[1], improvement.line)]

\* a call that awaits its request; stale records that a review run has started
\* since the call was made
OpCall(op, key, prompt) ==
  [op |-> op, key |-> key, prompt |-> prompt, requests |-> 1, stale |-> FALSE]

\* the log and the calls awaiting hold fewer than MaxFollowUps follow-up requests
FollowUpsLeft ==
  Cardinality({i \in 1..Len(apiLogs) :
                 apiLogs[i].step \in {"Test Suggestions", "Generate Copilot Prompt",
                                      "Generate Test Creation Prompt"}}) + Len(ops)
    < MaxFollowUps

RemoveAt(q, i) == SubSeq(q, 1, i - 1) \o SubSeq(q, i + 1, Len(q))

\* ClickSuggestTests with loading left as it is
ClickSuggestTestsNotLoading ==
  /\ ~loading /\ review # <<>>
  /\ FollowUpsLeft
  /\ IF prContext = <<>>
     THEN /\ error' = <<"Please perform a review first to gather context for test generation.">>
          /\ UNCHANGED <<testSuggestions, loading, loadingStep, ops>>
     ELSE /\ testSuggestions' = <<>>
          /\ IF ~creds.gemini
             THEN /\ error' = <<KeyMissingMessage>>
                  /\ UNCHANGED <<loading, loadingStep, ops>>
             ELSE /\ error' = <<>>
                  /\ UNCHANGED <<loading, loadingStep>>
                  /\ ops' = Append(ops, OpCall("Test Suggestions", 0,
                                               testPrompt(prContext[1].summary, prContext[1].diff)))
  /\ UNCHANGED <<pureVars, creds, prUrl, review, prContext, apiLogs, masterFilesContent, pc, run,
                 aiRequests, inflight, ghRequests, outcome, copilotPrompt, showCopilotModal,
                 isGeneratingPromptFor, isGeneratingTestPromptFor>>

\* the button "Suggest Test Cases" (disabled while loading or without review)
ClickSuggestTests ==
  /\ ~loading /\ review # <<>>
  /\ FollowUpsLeft
  /\ IF prContext = <<>>
     THEN /\ error' = <<"Please perform a review first to gather context for test generation.">>
          /\ UNCHANGED <<testSuggestions, loading, loadingStep, ops>>
     ELSE /\ testSuggestions' = <<>>
          /\ IF ~creds.gemini
             THEN /\ error' = <<KeyMissingMessage>>
                  /\ UNCHANGED <<loading, loadingStep, ops>>
             ELSE /\ error' = <<>>
                  /\ loading' = TRUE
                  /\ loadingStep' = "Generating test cases..."
                  /\ ops' = Append(ops, OpCall("Test Suggestions", 0,
                                               testPrompt(prContext[1].summary, prContext[1].diff)))
  /\ UNCHANGED <<pureVars, creds, prUrl, review, prContext, apiLogs, masterFilesContent, pc, run,
                 aiRequests, inflight, ghRequests, outcome, copilotPrompt, showCopilotModal,
                 isGeneratingPromptFor, isGeneratingTestPromptFor>>

\* the request of generateTestSuggestions is answered: the text is logged and
\* parsed, and the suggestions set
SuggestTestsResponds ==
  \E i \in 1..Len(ops) : \E text \in {GarbageText, Text("suggestions", <<SuggestionsValue>>)} :
    /\ ops[i].op = "Test Suggestions"
    /\ apiLogs' = Append(apiLogs, logEntry("Test Suggestions", ops[i].prompt, text))
    /\ IF JSONparse(text).ok
       THEN /\ testSuggestions' = <<JSONparse(text).value>>
            /\ UNCHANGED error
       ELSE /\ error' = <<"Unexpected token in JSON">>
            /\ UNCHANGED testSuggestions
    /\ loading' = FALSE /\ loadingStep' = ""
    /\ ops' = RemoveAt(ops, i)
    /\ UNCHANGED <<pureVars, creds, prUrl, review, prContext, masterFilesContent, pc, run,
                   aiRequests, inflight, ghRequests, outcome, copilotPrompt, showCopilotModal,
                   isGeneratingPromptFor, isGeneratingTestPromptFor>>

\* the message a follow-up handler sets for a caught error
followUpMessage(op, msg) ==
  IF msg # "" THEN msg
  ELSE CASE op = "Test Suggestions" -> "Failed to generate test suggestions."
         [] op = "Generate Copilot Prompt" -> "Failed to generate Copilot prompt."
         [] op = "Generate Test Creation Prompt" -> "Failed to generate test creation prompt."

\* OpFails with the rejected request issued once more
OpFailsRetrying(op) ==
  \E i \in 1..Len(ops) :
    /\ ops[i].op = op
    /\ ops' = [ops EXCEPT ![i].requests = @ + 1]
    /\ UNCHANGED error

\* the request of a follow-up call is rejected: the handler sets the error
OpFails(op) ==
  \E i \in 1..Len(ops) : \E msg \in ErrMsgs :
    /\ ops[i].op = op
    /\ error' = <<followUpMessage(op, msg)>>
    /\ ops' = RemoveAt(ops, i)

SuggestTestsFails ==
  /\ OpFails("Test Suggestions")
  /\ loading' = FALSE /\ loadingStep' = ""
  /\ UNCHANGED <<pureVars, creds, prUrl, review, testSuggestions, prContext, apiLogs,
                 masterFilesContent, pc, run, aiRequests, inflight, ghRequests, outcome,
                 copilotPrompt, showCopilotModal, isGeneratingPromptFor,
                 isGeneratingTestPromptFor>>

\* the button "Generate Copilot Prompt" of the k-th finding of the review shown
\* (disabled while isGeneratingPromptFor is its key)
ClickCopilotPrompt ==
  \E k \in 1..(IF review = <<>> THEN 0 ELSE Len(review[1].improvements)) :
    LET improvement == review[1].improvements[k]
        cut == snippetFor(masterFilesContent, improvement)
    IN  /\ isGeneratingPromptFor # <<k>>
        /\ FollowUpsLeft
        /\ IF ~cut.found
           THEN /\ error' = <<"Could not find content for file">>
                /\ isGeneratingPromptFor' = <<>>
                /\ UNCHANGED ops
           ELSE IF ~creds.gemini
           THEN /\ error' = <<KeyMissingMessage>>
                /\ isGeneratingPromptFor' = <<>>
                /\ UNCHANGED ops
           ELSE /\ error' = <<>>
                /\ isGeneratingPromptFor' = <<k>>
                /\ ops' = Append(ops, OpCall("Generate Copilot Prompt", k,
                                   copilotFixPrompt(improvement, cut.codeSnippet)))
        /\ UNCHANGED <<pureVars, creds, prUrl, review, testSuggestions, prContext, loading,
                       loadingStep, apiLogs, masterFilesContent, pc, run, aiRequests, inflight,
                       ghRequests, outcome, copilotPrompt, showCopilotModal,
                       isGeneratingTestPromptFor>>

\* the request of generateCopilotFixPrompt is answered: the text is logged and
\* the prompt shown
CopilotPromptResponds ==
  \E i \in 1..Len(ops) : \E text \in PromptTexts :
    /\ ops[i].op = "Generate Copilot Prompt"
    /\ apiLogs' = Append(apiLogs, logEntry("Generate Copilot Prompt", ops[i].prompt, text))
    /\ copilotPrompt' = <<finalPromptForUser(text, ops[i].prompt)>>
    /\ showCopilotModal' = TRUE
    /\ isGeneratingPromptFor' = <<>>
    /\ ops' = RemoveAt(ops, i)
    /\ UNCHANGED <<pureVars, creds, prUrl, review, testSuggestions, prContext, loading,
                   loadingStep, error, masterFilesContent, pc, run, aiRequests, inflight,
                   ghRequests, outcome, isGeneratingTestPromptFor>>

\* CopilotPromptFails with a finally block that clears loading
CopilotPromptFailsClearingLoading ==
  /\ OpFails("Generate Copilot Prompt")
  /\ isGeneratingPromptFor' = <<>>
  /\ loading' = FALSE /\ loadingStep' = ""
  /\ UNCHANGED <<pureVars, creds, prUrl, review, testSuggestions, prContext, apiLogs,
                 masterFilesContent, pc, run, aiRequests, inflight, ghRequests, outcome,
                 copilotPrompt, showCopilotModal, isGeneratingTestPromptFor>>

CopilotPromptFails ==
  /\ OpFails("Generate Copilot Prompt")
  /\ isGeneratingPromptFor' = <<>>
  /\ UNCHANGED <<pureVars, creds, prUrl, review, testSuggestions, prContext, loading,
                 loadingStep, apiLogs, masterFilesContent, pc, run, aiRequests, inflight,
                 ghRequests, outcome, copilotPrompt, showCopilotModal,
                 isGeneratingTestPromptFor>>

\* the button "Generate Test Prompt" of the k-th unit test suggested (disabled
\* while isGeneratingTestPromptFor is its key)
ClickTestPrompt ==
  \E k \in 1..(IF testSuggestions = <<>> THEN 0 ELSE Len(testSuggestions[1].unitTests)) :
    /\ isGeneratingTestPromptFor # <<k>>
    /\ FollowUpsLeft
    /\ IF prContext = <<>>
       THEN /\ error' = <<"PR context is not available. Please run a review first.">>
            /\ isGeneratingTestPromptFor' = <<>>
            /\ UNCHANGED ops
       ELSE IF ~creds.gemini
       THEN /\ error' = <<KeyMissingMessage>>
            /\ isGeneratingTestPromptFor' = <<>>
            /\ UNCHANGED ops
       ELSE /\ error' = <<>>
            /\ isGeneratingTestPromptFor' = <<k>>
            /\ ops' = Append(ops, OpCall("Generate Test Creation Prompt", k,
                               testCreationPrompt(testSuggestions[1].unitTests[k], "Unit Test",
                                                  prContext[1].summary, prContext[1].diff)))
    /\ UNCHANGED <<pureVars, creds, prUrl, review, testSuggestions, prContext, loading,
                   loadingStep, apiLogs, masterFilesContent, pc, run, aiRequests, inflight,
                   ghRequests, outcome, copilotPrompt, showCopilotModal, isGeneratingPromptFor>>

\* the request of generateTestCreationPrompt is answered: the text is logged
\* and the prompt shown
TestPromptResponds ==
  \E i \in 1..Len(ops) : \E text \in PromptTexts :
    /\ ops[i].op = "Generate Test Creation Prompt"
    /\ apiLogs' = Append(apiLogs, logEntry("Generate Test Creation Prompt", ops[i].prompt, text))
    /\ copilotPrompt' = <<finalPromptForUser(text, ops[i].prompt)>>
    /\ showCopilotModal' = TRUE
    /\ isGeneratingTestPromptFor' = <<>>
    /\ ops' = RemoveAt(ops, i)
    /\ UNCHANGED <<pureVars, creds, prUrl, review, testSuggestions, prContext, loading,
                   loadingStep, error, masterFilesContent, pc, run, aiRequests, inflight,
                   ghRequests, outcome, isGeneratingPromptFor>>

TestPromptFails ==
  /\ OpFails("Generate Test Creation Prompt")
  /\ isGeneratingTestPromptFor' = <<>>
  /\ UNCHANGED <<pureVars, creds, prUrl, review, testSuggestions, prContext, loading,
                 loadingStep, apiLogs, masterFilesContent, pc, run, aiRequests, inflight,
                 ghRequests, outcome, copilotPrompt, showCopilotModal,
                 isGeneratingPromptFor>>

(***************************************************************************)
(* Specification Spec: the App component, its review runs and their        *)
(* collaborators.                                                          *)
(***************************************************************************)
Init ==
  /\ AppInit
  /\ UrlIdle
  /\ SnippetIdle
  /\ pdiff = <<>> /\ plines = <<<<>>>> /\ pidx = 1 /\ pst = parserInit /\ ppc = "loop"

Next ==
  \/ SetPrUrl
  \/ SaveSettings
  \/ ClickReview
  \/ HostRequestFails
  \/ PrDetailsArrive
  \/ PrDiffArrives
  \/ ReadmeArrives
  \/ FileFetched
  \/ Stage1Responds
  \/ Stage1Fails
  \/ Stage2Responds
  \/ Stage2Fails
  \/ Stage3Responds
  \/ Stage3Fails
  \/ DigestResolves
  \/ DigestRejects

Spec == Init /\ [][Next]_vars

(***************************************************************************)
(* Specification SpecOps: the App component with its follow-up operations, *)
(* for a user who has saved both credentials and entered a PR URL, who     *)
(* keeps the token of the host and saves settings only while no request is *)
(* awaited, and for a host and an AI endpoint that                         *)
(* answer a review run in few ways: the diff has one file, every fetch     *)
(* succeeds, and the text of stage 3 is no JSON or a review of two         *)
(* findings inside the hunk, whose digests are ready in index order.       *)
(***************************************************************************)
OpsDiff == RenderDiff(<<HdrLine(<<"a">>), HunkLine(1, 3, 1, 5, <<>>)>>)

OpsReview == ReviewValue(<<Finding(<<"a">>, 1), Finding(<<"a">>, 5)>>)

FewAnswers ==
  /\ run.diff \in {<<>>, OpsDiff}
  /\ run.readme \in {"", "readme"}
  /\ \A i \in 1..Len(run.files) : run.files[i].body = FileContent
  /\ run.aiReview \in {<<>>, <<OpsReview>>}
  /\ run.order = [i \in 1..Len(run.order) |-> i]
  /\ \A i \in 1..Len(apiLogs) :
       apiLogs[i].step = "Refinement" =>
         apiLogs[i].response \in {GarbageText, Text("review", <<OpsReview>>)}

InitOps ==
  /\ creds = [gemini |-> TRUE, github |-> TRUE]
  /\ prUrl \in Urls \ {<<>>}
  /\ AppStart
  /\ UrlIdle
  /\ ParserIdle
  /\ SnippetIdle

NextOps ==
  \/ SaveSettings /\ creds'.github /\ ~loading /\ ops = <<>>
  \/ ClickReview /\ FewAnswers'
  \/ HostRequestFails /\ FewAnswers'
  \/ PrDetailsArrive /\ FewAnswers'
  \/ PrDiffArrives /\ FewAnswers'
  \/ ReadmeArrives /\ FewAnswers'
  \/ FileFetched /\ FewAnswers'
  \/ Stage1Responds /\ FewAnswers'
  \/ Stage1Fails /\ FewAnswers'
  \/ Stage2Responds /\ FewAnswers'
  \/ Stage2Fails /\ FewAnswers'
  \/ Stage3Responds /\ FewAnswers'
  \/ Stage3Fails /\ FewAnswers'
  \/ DigestResolves /\ FewAnswers'
  \/ DigestRejects /\ FewAnswers'
  \/ ClickSuggestTests
  \/ SuggestTestsResponds
  \/ SuggestTestsFails
  \/ ClickCopilotPrompt
  \/ CopilotPromptResponds
  \/ CopilotPromptFails
  \/ ClickTestPrompt
  \/ TestPromptResponds
  \/ TestPromptFails

SpecOps == InitOps /\ [][NextOps]_vars

\* the environment of SpecLive: that of SpecOps with at most one follow-up call
\* outstanding
LiveAnswers == FewAnswers /\ Len(ops) <= 1

NextLive ==
  \/ ClickReview /\ LiveAnswers'
  \/ HostRequestFails /\ LiveAnswers'
  \/ PrDetailsArrive /\ LiveAnswers'
  \/ PrDiffArrives /\ LiveAnswers'
  \/ ReadmeArrives /\ LiveAnswers'
  \/ FileFetched /\ LiveAnswers'
  \/ Stage1Responds /\ LiveAnswers'
  \/ Stage1Fails /\ LiveAnswers'
  \/ Stage2Responds /\ LiveAnswers'
  \/ Stage2Fails /\ LiveAnswers'
  \/ Stage3Responds /\ LiveAnswers'
  \/ Stage3Fails /\ LiveAnswers'
  \/ DigestResolves /\ LiveAnswers'
  \/ DigestRejects /\ LiveAnswers'
  \/ ClickCopilotPrompt /\ LiveAnswers'
  \/ CopilotPromptResponds
  \/ CopilotPromptFails

\* review runs beside one fix-prompt call; the call a review run awaits
\* eventually returns or fails
SpecLive ==
  /\ InitOps
  /\ [][NextLive]_vars
  /\ WF_vars(/\ \/ HostRequestFails \/ PrDetailsArrive \/ PrDiffArrives \/ ReadmeArrives
                \/ FileFetched \/ Stage1Fails \/ Stage1Responds \/ Stage2Fails
                \/ Stage2Responds \/ Stage3Fails \/ Stage3Responds \/ DigestRejects
                \/ DigestResolves
             /\ LiveAnswers')

(***************************************************************************)
(* Claims about a review run, under Spec.                                  *)
(***************************************************************************)
\* the finding names a file with an entry in the table and a line inside one of
\* the entry's ranges, bounds included
InTable(table, f) ==
  /\ f.file \in DOMAIN table
  /\ \E i \in 1..Len(table[f.file]) :
       table[f.file][i].start <= f.line /\ f.line <= table[f.file][i].end

\* C1: once validation has run, a finding of the refined review is kept exactly
\* when the range table of the diff has an entry for its file and one of the
\* entry's ranges contains its line; every finding of the displayed review is
\* such a finding of the diff kept as the PR context
C1_KeptIffInRange ==
  /\ run.validated =>
       LET table == parseDiffToValidLineRanges(run.diff).ranges
           ai == run.aiReview[1].improvements
       IN  /\ \A i \in 1..Len(ai) :
                 (\E j \in 1..Len(run.valid) : run.valid[j] = ai[i]) <=> InTable(table, ai[i])
           /\ \A j \in 1..Len(run.valid) : \E i \in 1..Len(ai) : ai[i] = run.valid[j]
  /\ review # <<>> =>
       /\ prContext # <<>>
       /\ \A j \in 1..Len(review[1].improvements) :
            InTable(parseDiffToValidLineRanges(prContext[1].diff).ranges,
                    [file |-> review[1].improvements[j].file,
                     line |-> review[1].improvements[j].line])

\* a review is displayed with one finding kept and one finding dropped
C1_Witness ==
  /\ outcome = "ok" /\ review # <<>>
  /\ Len(run.aiReview[1].improvements) = 2
  /\ Len(review[1].improvements) = 1

\* the stages of the requests issued to the AI endpoint, in order
StagesIssued == [i \in 1..Len(aiRequests) |-> aiRequests[i].stage]

C8_StagesSequential ==
  /\ Cardinality(inflight) <= 1
  /\ StagesIssued = SubSeq(<<"Context Gathering", "Initial Review", "Refinement">>,
                           1, Len(aiRequests))
  /\ Len(aiRequests) >= 2 =>
       /\ run.contextSummary # <<>>
       /\ Len(apiLogs) >= 1 /\ apiLogs[1].step = "Context Gathering"
       /\ aiRequests[2].prompt.summary = run.contextSummary
  /\ Len(aiRequests) >= 3 =>
       /\ run.initialReviewText # <<>>
       /\ Len(apiLogs) >= 2 /\ apiLogs[2].step = "Initial Review"
       /\ aiRequests[3].prompt.initial = run.initialReviewText
  /\ Len(apiLogs) <= Len(aiRequests)

\* the request of stage 3 is the only one in flight, after two responses
C8_Witness ==
  /\ pc = "stage3" /\ inflight = {"Refinement"}
  /\ Len(aiRequests) = 3 /\ Len(apiLogs) = 2

\* C9: when the request of stage 1 was rejected, the run has failed: no request
\* of stage 2 or 3 was issued, no summary was substituted, and no review is set
C9_Stage1FailureAborts ==
  "Context Gathering" \in run.rejected =>
    /\ outcome = "failed"
    /\ StagesIssued = <<"Context Gathering">>
    /\ inflight = {}
    /\ run.contextSummary = <<>>
    /\ apiLogs = <<>>
    /\ review = <<>>
    /\ error # <<>>

\* the request of stage 1 was rejected
C9_Witness ==
  /\ "Context Gathering" \in run.rejected
  /\ pc = "idle" /\ ~loading

\* C10: a run that has failed leaves the review null and one error message
\* that is not empty; while a run is under way no review is set
C10_FailureLeavesNoReview ==
  /\ outcome = "failed" =>
       /\ review = <<>>
       /\ Len(error) = 1 /\ error[1] # ""
  /\ outcome = "running" => review = <<>>

\* a run has failed at the link step, after validation and after the PR
\* context was set, with an error that carried no message
C10_Witness ==
  /\ outcome = "failed" /\ run.validated /\ prContext # <<>> /\ run.pending # {}
  /\ error = <<"An unknown error occurred.">>

(***************************************************************************)
(* Claims about the audit log of a review run, under Spec.                 *)
(***************************************************************************)
\* the steps logged by the three stages of generateReview, in stage order
StageOrder == <<"Context Gathering", "Initial Review", "Refinement">>

\* the entries of the audit log written by the stages of a review run
stageEntries ==
  SelectSeq(apiLogs, LAMBDA e : \E k \in 1..Len(StageOrder) : e.step = StageOrder[k])

IsPrefix(p, q) == Len(p) <= Len(q) /\ SubSeq(q, 1, Len(p)) = p

\* the run is over
Terminated == pc = "idle" /\ outcome \in {"ok", "failed"}

\* the i-th request of the run has been answered
Answered(i) == aiRequests[i].stage \notin inflight /\ aiRequests[i].stage \notin run.rejected

\* C11 as stated: every stage whose request was issued has its entry in the
\* log, with the prompt of the request, once the next request is issued or the
\* run is over, also when the stage failed
C11_EveryIssuedStageLogged ==
  \A i \in 1..Len(aiRequests) :
    (i < Len(aiRequests) \/ Terminated) =>
      \E j \in 1..Len(apiLogs) :
        apiLogs[j].step = aiRequests[i].stage /\ apiLogs[j].prompt = aiRequests[i].prompt

\* C11, amended: a stage's entry, with its prompt and the text received, is in
\* the log as soon as the stage's request is answered, hence before the next
\* request is issued and before the text of stage 3 is parsed; a stage whose
\* request is rejected leaves no entry
C11_AnsweredStageLogged ==
  /\ \A i \in 1..Len(aiRequests) :
       /\ Answered(i) =>
            /\ Len(stageEntries) >= i
            /\ stageEntries[i].step = aiRequests[i].stage
            /\ stageEntries[i].prompt = aiRequests[i].prompt
       /\ i < Len(aiRequests) => Answered(i)
       /\ aiRequests[i].stage \in run.rejected =>
            \A j \in 1..Len(apiLogs) : apiLogs[j].step # aiRequests[i].stage
  /\ Len(stageEntries) >= 1 => <<stageEntries[1].response>> = run.contextSummary
  /\ Len(stageEntries) >= 2 => <<stageEntries[2].response>> = run.initialReviewText
  /\ (Len(stageEntries) >= 3 /\ run.aiReview # <<>>) =>
       JSONparse(stageEntries[3].response).value = run.aiReview[1]
  /\ (Terminated /\ error = <<"Unexpected token in JSON">>) =>
       /\ Len(stageEntries) = 3
       /\ ~JSONparse(stageEntries[3].response).ok

\* a run has failed on the text of stage 3, which the log holds
C11_Witness ==
  /\ Terminated /\ outcome = "failed" /\ error = <<"Unexpected token in JSON">>
  /\ Len(apiLogs) = 3 /\ apiLogs[3].step = "Refinement"
  /\ apiLogs[3].prompt = aiRequests[3].prompt

\* C12: a step that ends a run with a failure, and every step after it until
\* the next run starts, leaves the log as it was or longer; after a failure the
\* entries of the stages are those of the stages answered, in stage order
C12_FailureKeepsLog ==
  [][(outcome' = "failed" /\ ~ClickReview) =>
       /\ IsPrefix(apiLogs, apiLogs')
       /\ [i \in 1..Len(stageEntries') |-> stageEntries'[i].step]
            = SubSeq(StageOrder, 1, Len(stageEntries'))
       /\ \A i \in 1..Len(aiRequests') :
            aiRequests'[i].stage \notin run'.rejected =>
              /\ Len(stageEntries') >= i
              /\ stageEntries'[i].prompt = aiRequests'[i].prompt]_vars

\* a run has failed at stage 3 and the log holds the entries of stages 1 and 2
C12_Witness ==
  /\ outcome = "failed" /\ "Refinement" \in run.rejected
  /\ Len(apiLogs) = 2
  /\ apiLogs[1].step = "Context Gathering" /\ apiLogs[2].step = "Initial Review"

(***************************************************************************)
(* Claims about review validation, under Spec.                             *)
(***************************************************************************)
\* C14: validation is idempotent: the filter applied to the improvements it
\* kept, with the range table of the same diff, keeps all of them
C14_ValidationIdempotent ==
  run.validated =>
    filterImprovements(parseDiffToValidLineRanges(run.diff).ranges, run.valid)
      = [thrown |-> FALSE, kept |-> run.valid]

\* validation has kept one of two findings
C14_Witness ==
  /\ pc = "linking" /\ run.validated
  /\ Len(run.aiReview[1].improvements) = 2 /\ Len(run.valid) = 1

\* s is t with some of its elements left out
RECURSIVE IsSubsequence(_, _)
IsSubsequence(s, t) ==
  IF s = <<>> THEN TRUE
  ELSE IF t = <<>> THEN FALSE
  ELSE IF Head(s) = Head(t) THEN IsSubsequence(Tail(s), Tail(t))
  ELSE IsSubsequence(s, Tail(t))

\* C15: the improvements kept by validation are a subsequence of those of the
\* refined review, with every field as it was; the review displayed carries
\* them in that order, with the strengths of the refined review
C15_ValidationKeepsOrderAndFields ==
  /\ run.validated => IsSubsequence(run.valid, run.aiReview[1].improvements)
  /\ (review # <<>> /\ outcome = "ok") =>
       /\ review[1].strengths = run.aiReview[1].strengths
       /\ Len(review[1].improvements) = Len(run.valid)
       /\ \A j \in 1..Len(run.valid) :
            LET shown == review[1].improvements[j]
            IN  [line |-> shown.line, file |-> shown.file, category |-> shown.category,
                 comment |-> shown.comment] = run.valid[j]

\* a review is displayed with two different findings, in the order of the
\* refined review
C15_Witness ==
  /\ outcome = "ok" /\ review # <<>>
  /\ Len(review[1].improvements) = 2
  /\ review[1].improvements[1].line # review[1].improvements[2].line

\* C16 as stated: whenever the text of stage 3 was parsed to a review with
\* improvements, validation has completed
C16_ValidationNeverThrows ==
  (run.aiReview # <<>> /\ run.aiReview[1].hasImprovements) => run.validated

(***************************************************************************)
(* Specification SpecUrl: parseGitHubUrl on every text of UrlParts.        *)
(***************************************************************************)
UrlInit ==
  /\ uin \in {<<u>> : u \in UrlParts}
  /\ ures = <<>>
  /\ upc = "call"
  /\ ParserIdle
  /\ SnippetIdle
  /\ AppInit /\ creds = [gemini |-> TRUE, github |-> TRUE]

\* const prData = parseGitHubUrl(prUrl)
UrlParse ==
  /\ upc = "call"
  /\ ures' = parseGitHubUrl(UrlText(uin[1]))
  /\ upc' = "returned"
  /\ UNCHANGED <<uin, parserVars, appVars, snipVars>>

SpecUrl == UrlInit /\ [][UrlParse]_vars

(***************************************************************************)
(* Claims about parseGitHubUrl, under SpecUrl.                             *)
(***************************************************************************)

\* the PrData of the parts of a URL, the digits being 42 or 7
PrDataOf(u) ==
  [owner |-> u.owner, repo |-> u.repo, pull_number |-> IF u.num = <<"4", "2">> THEN 42 ELSE 7]

\* C17 as stated: a text is accepted exactly when it has the form
\* https://<host>/<owner>/<repo>/pull/<digits>, with its owner, repository and
\* number returned
C17_AcceptsExactlyPrUrlForm ==
  upc = "returned" =>
    /\ ures # <<>> <=>
         /\ uin[1].scheme = <<"h", "t", "t", "p", "s", ":", "/", "/">>
         /\ uin[1].owner # <<>> /\ uin[1].repo # <<>>
         /\ uin[1].sep = <<"/", "p", "u", "l", "l", "/">>
         /\ uin[1].num # <<>>
         /\ uin[1].tail = <<>>
    /\ ures # <<>> => ures[1] = PrDataOf(uin[1])

\* C17, amended: a text is accepted exactly when it contains
\* github.com/<owner>/<repo>/pull/<digits>, whatever precedes and follows it;
\* the owner, the repository and the number of the digits are returned
C17_AcceptsGithubPullAnywhere ==
  upc = "returned" =>
    /\ ures # <<>> <=>
         /\ uin[1].host = <<"g", "i", "t", "h", "u", "b", ".", "c", "o", "m">>
         /\ uin[1].owner # <<>> /\ uin[1].repo # <<>>
         /\ uin[1].sep = <<"/", "p", "u", "l", "l", "/">>
         /\ uin[1].num # <<>>
    /\ ures # <<>> => ures[1] = PrDataOf(uin[1])

\* a text without scheme and with text after the number is accepted, with the
\* number of its digits
C17_Witness ==
  /\ upc = "returned" /\ ures # <<>>
  /\ uin[1].scheme = <<>> /\ uin[1].tail = <<"x">> /\ uin[1].num = <<"0", "0", "7">>
  /\ ures[1].pull_number = 7

(***************************************************************************)
(* Claims about the inputs of a review run and its fetches, under Spec.    *)
(***************************************************************************)
InvalidUrlMessage ==
  "Invalid GitHub PR URL. Please use the format: https://github.com/owner/repo/pull/123"

\* C18: a click on the review button while the URL input holds a malformed
\* text (the empty text) ends the run at once with the invalid-URL error, and
\* no request to the host or to the AI endpoint is issued
C18_MalformedUrlNoRequest ==
  [][(ClickReview /\ prUrl = <<>>) =>
       /\ outcome' = "failed" /\ error' = <<InvalidUrlMessage>>
       /\ ghRequests' = <<>> /\ aiRequests' = <<>> /\ inflight' = {}
       /\ ~loading' /\ pc' = "idle" /\ review' = <<>>]_vars

\* a run has ended with the invalid-URL error while both credentials are set
C18_Witness ==
  /\ outcome = "failed" /\ error = <<InvalidUrlMessage>>
  /\ creds.github /\ creds.gemini
  /\ prUrl = <<>> /\ ghRequests = <<>> /\ aiRequests = <<>>

\* C19 as stated: a run that has ended with the error of a missing credential
\* has issued no request to the host and none to the AI endpoint
C19_MissingCredentialNoRequest ==
  (outcome = "failed" /\ error # <<>> /\ error[1] \in {"GitHub token not found.",
                   "Gemini API Key not found. Please set it in the settings."}) =>
    ghRequests = <<>> /\ aiRequests = <<>>

\* the paths of the `+++ b/` headers of a diff, in the order of the lines
HeaderSeq(d) ==
  LET hdrs == SelectSeq(d, LAMBDA l : l.k = "hdr")
  IN  [i \in 1..Len(hdrs) |-> hdrs[i].path]

\* paths holds every element of all once, in the order of the first occurrences
IsFirstOccurrences(paths, all) ==
  LET first(x) == CHOOSE i \in 1..Len(all) : all[i] = x /\ \A j \in 1..(i - 1) : all[j] # x
  IN  /\ {paths[i] : i \in 1..Len(paths)} = {all[i] : i \in 1..Len(all)}
      /\ \A i, j \in 1..Len(paths) : i < j => first(paths[i]) < first(paths[j])

\* the README and every changed file have been fetched
ContextFetched == run.readme # "" /\ run.fileQueue = <<>>

C13_NoRequestRetried ==
  [][/\ \A i \in 1..Len(ops') : ops'[i].requests = 1
     /\ \A i, j \in 1..Len(aiRequests') :
          aiRequests'[i].stage = aiRequests'[j].stage => i = j
     /\ run'.rejected \ run.rejected # {} =>
          /\ aiRequests' = aiRequests
          /\ ops' = ops
          /\ outcome' = "failed" /\ pc' = "idle" /\ ~loading'
          /\ error' # <<>> /\ error' # <<"">>
     /\ (Len(ops') < Len(ops) /\ apiLogs' = apiLogs) =>
          /\ \E i \in 1..Len(ops) : ops' = RemoveAt(ops, i)
          /\ aiRequests' = aiRequests
          /\ error' # <<>> /\ error' # <<"">>
     /\ Len(ops') > Len(ops) =>
          /\ ops' = Append(ops, ops'[Len(ops')])
          /\ aiRequests' = aiRequests
    ]_vars

\* the request of a stage of the run was rejected, and then the request of a
\* call of handleGenerateCopilotPrompt that was awaiting since before the run
C13_Witness ==
  /\ "Context Gathering" \in run.rejected
  /\ Len(aiRequests) = 1
  /\ outcome = "failed"
  /\ ops = <<>>
  /\ error = <<"Failed to generate Copilot prompt.">>

(***************************************************************************)
(* C21: the link of every finding of the review shown is composed of the   *)
(* base URL, the owner, repository and number parsed from the run's URL,   *)
(* the digest of the finding's file path and the finding's line; findings  *)
(* of equal file and line carry equal links, and findings of the same file *)
(* carry the same hash segment whatever their lines.                       *)
(***************************************************************************)
C21_LinkFormatAndHashOfFile ==
  review # <<>> =>
    LET imps == review[1].improvements
        prData == run.prData
    IN  /\ \A i \in 1..Len(imps) :
             /\ prData # <<>>
             /\ imps[i].link.base = "https://github.com"
             /\ imps[i].link.owner = prData[1].owner
             /\ imps[i].link.repo = prData[1].repo
             /\ imps[i].link.pull_number = prData[1].pull_number
             /\ imps[i].link.hash = sha1(imps[i].file)
             /\ imps[i].link.line = imps[i].line
        /\ \A i, j \in 1..Len(imps) :
             /\ imps[i].file = imps[j].file => imps[i].link.hash = imps[j].link.hash
             /\ (imps[i].file = imps[j].file /\ imps[i].line = imps[j].line) =>
                  imps[i].link = imps[j].link

\* a review shown with two findings of one file at different lines
C21_Witness ==
  /\ review # <<>>
  /\ Len(review[1].improvements) = 2
  /\ review[1].improvements[1].file = review[1].improvements[2].file
  /\ review[1].improvements[1].line # review[1].improvements[2].line
  /\ review[1].improvements[1].link.hash = sha1(review[1].improvements[1].file)

(***************************************************************************)
(* C22: whatever the order in which the digests were ready, the review     *)
(* shown has one finding per validated finding of the run, at the same     *)
(* index, with the fields of that finding and the link composed of its own *)
(* file and line; while digests are pending no review is shown.            *)
(***************************************************************************)
C22_LinksReassembledInOrder ==
  /\ pc = "linking" => review = <<>>
  /\ (review # <<>> /\ outcome = "ok") =>
       /\ run.pending = {}
       /\ Len(review[1].improvements) = Len(run.valid)
       /\ \A i \in 1..Len(run.valid) :
            review[1].improvements[i] =
              withLink(run.valid[i],
                       linkOf(run.prData[1], sha1(run.valid[i].file), run.valid[i].line))

\* a review shown whose second finding had its digest ready before the first,
\* the two findings differing in their links
C22_Witness ==
  /\ review # <<>>
  /\ run.order = <<2, 1>>
  /\ review[1].improvements[1].link # review[1].improvements[2].link

(***************************************************************************)
(* Specification SpecSnippet: handleGenerateCopilotPrompt up to its        *)
(* request, for a finding of file a.  The file was fetched from the base   *)
(* branch as a text of numbered lines, with or without a final newline, or *)
(* could not be fetched; its block is the only one of masterFilesContent,  *)
(* or stands before or after the block of a file b.                        *)
(***************************************************************************)
\* most lines of the file at the base branch
MaxSnapLines == 12

\* the text of n lines, the i-th being the numeral of i
NumberedLines(n, finalNewline) ==
  join([i \in 1..n |-> Dec(i)]) \o (IF finalNewline /\ n > 0 THEN <<"\n">> ELSE <<>>)

\* masterFilesContent after getChangedFilesContent
SnippetBlocks(f) ==
  LET a == fileBlockWith(<<"a">>, f.kind, NumberedLines(f.n, f.finalNewline))
      b == fileBlockWith(<<"b">>, "ok", NumberedLines(1, TRUE))
  IN  CASE f.place = "only" -> <<a>>
        [] f.place = "first" -> <<a, b>>
        [] f.place = "last" -> <<b, a>>

SnippetInit ==
  /\ sfetch \in
       {<<f>> : f \in [kind : {"ok"}, n : 0..MaxSnapLines, finalNewline : BOOLEAN,
                       place : {"only", "first", "last"}]
                        \cup [kind : {"not ok", "error"}, n : {0}, finalNewline : {FALSE},
                              place : {"only", "first", "last"}]}
  /\ sline \in 1..(MaxSnapLines + 1)
  /\ sres = <<>>
  /\ spc = "call"
  /\ ParserIdle
  /\ UrlIdle
  /\ AppInit /\ creds = [gemini |-> TRUE, github |-> TRUE]

\* the handler runs up to the call of generateCopilotFixPrompt, or throws
SnippetCut ==
  /\ spc = "call"
  /\ sres' = <<snippetFor(SnippetBlocks(sfetch[1]), Finding(<<"a">>, sline))>>
  /\ spc' = "returned"
  /\ UNCHANGED <<sfetch, sline, parserVars, urlVars, appVars>>

SpecSnippet == SnippetInit /\ [][SnippetCut]_vars

(***************************************************************************)
(* C23: when the file of the finding was fetched with n >= 1 lines, the    *)
(* content is found, the snippet is the text of the lines max(1, L-5) to   *)
(* min(n, L+5) of the file, and the line L of the finding is one of them.  *)
(***************************************************************************)
C23_SnippetIsWindowAroundLine ==
  (spc = "returned" /\ sfetch[1].kind = "ok" /\ sfetch[1].n >= 1) =>
    LET n == sfetch[1].n
        lo == IF sline - 5 < 1 THEN 1 ELSE sline - 5
        hi == IF sline + 5 > n THEN n ELSE sline + 5
    IN  /\ sres[1].found
        /\ lo <= sline /\ sline <= hi
        /\ sres[1].codeSnippet = join([i \in 1..(hi - lo + 1) |-> Dec(lo + i - 1)])

(***************************************************************************)
(* C24: when the file of the finding could not be fetched from the base    *)
(* branch, the handler throws the error of the content not found and does  *)
(* not call generateCopilotFixPrompt.                                      *)
(***************************************************************************)
C24_UnfetchedFileFailsPrompt ==
  (spc = "returned" /\ sfetch[1].kind # "ok") => ~sres[1].found

(***************************************************************************)
(* C25: in every iteration of the parser each list of the table keeps its  *)
(* ranges in place.  A list grows only in an iteration on a hunk header    *)
(* that declares a length other than 0, by the range of that header        *)
(* appended at its end to the list of the cursor's file, whether or not    *)
(* the range overlaps or precedes the ranges listed; an iteration on a     *)
(* line that starts as a new-file header, also of a path whose header      *)
(* occurred before, changes no list and makes the path the cursor, and a   *)
(* new list is empty.                                                      *)
(***************************************************************************)
C25_RangesInEncounterOrder ==
  [][/\ \A f \in DOMAIN pst.ranges :
          f \in DOMAIN pst'.ranges /\ IsPrefix(pst.ranges[f], pst'.ranges[f])
     /\ \A f \in DOMAIN pst'.ranges \ DOMAIN pst.ranges :
          pst'.ranges[f] = <<>> /\ InLoop /\ CurLine = Render(HdrLine(f))
     /\ (\E f \in DOMAIN pst.ranges : pst'.ranges[f] # pst.ranges[f]) =>
          /\ AtDescriptor /\ pdiff[pidx].k = "hunk" /\ pdiff[pidx].nl # 0
          /\ pst.currentFile # <<>>
          /\ pst'.ranges = Put(pst.ranges, pst.currentFile[1],
                               Append(pst.ranges[pst.currentFile[1]],
                                      ClaimedRange(pdiff[pidx])))
     /\ (InLoop /\ isHeaderLine(CurLine) /\ substring(CurLine, 6) # DevNull) =>
          /\ pst'.currentFile = <<substring(CurLine, 6)>>
          /\ \A f \in DOMAIN pst.ranges : pst'.ranges[f] = pst.ranges[f]
    ]_vars

\* a table is returned in which a file has two ranges, the second starting
\* before the first and overlapping it
C25_Witness ==
  /\ Returned
  /\ \E f \in DOMAIN pst.ranges :
       /\ Len(pst.ranges[f]) = 2
       /\ pst.ranges[f][2].start < pst.ranges[f][1].start
       /\ pst.ranges[f][2].end >= pst.ranges[f][1].start

(***************************************************************************)
(* C26: an iteration on a line of a hunk body, that is a line after a hunk *)
(* header that is neither a new-file header nor a hunk header, leaves the  *)
(* cursor and the table as they are, whatever the text of the line.        *)
(***************************************************************************)
C26_BodyLinesAreInert ==
  [][(/\ AtDescriptor /\ pdiff[pidx].k = "body"
      /\ \E j \in 1..(pidx - 1) : pdiff[j].k = "hunk") =>
       /\ pst'.currentFile = pst.currentFile
       /\ pst'.ranges = pst.ranges
    ]_vars

(***************************************************************************)
(* C27: no step appends to the audit log the entry of a follow-up call     *)
(* that was awaiting its request when the review run started, and while a  *)
(* run is active the stage entries of the log are a prefix of Context      *)
(* Gathering, Initial Review, Refinement.                                  *)
(***************************************************************************)
C27_NoStaleFollowUpEntry ==
  [][/\ \A i \in 1..Len(ops) :
          (ops' = RemoveAt(ops, i) /\ Len(apiLogs') = Len(apiLogs) + 1) => ~ops[i].stale
     /\ loading' => IsPrefix([i \in 1..Len(stageEntries') |-> stageEntries'[i].step], StageOrder)
    ]_vars

(***************************************************************************)
(* C28: after every step, a review shown comes with the PR context of the  *)
(* run that produced it (the summary of its stage 1 and its diff), and     *)
(* test suggestions shown come with a review shown and with the log entry  *)
(* of a request whose prompt was written from the PR context shown; a step *)
(* that sets test suggestions is the answer to a call made since the last  *)
(* review run started.                                                     *)
(***************************************************************************)
C28_ReviewComesWithItsContext ==
  [][/\ review' # <<>> =>
          /\ prContext' # <<>>
          /\ run'.contextSummary # <<>>
          /\ prContext'[1] = [summary |-> run'.contextSummary[1], diff |-> run'.diff]
          /\ outcome' = "ok"
     /\ testSuggestions' # <<>> =>
          /\ review' # <<>>
          /\ prContext' # <<>>
          /\ \E i \in 1..Len(apiLogs') :
               /\ apiLogs'[i].step = "Test Suggestions"
               /\ apiLogs'[i].prompt = testPrompt(prContext'[1].summary, prContext'[1].diff)
     /\ (testSuggestions' # <<>> /\ testSuggestions = <<>>) =>
          \E i \in 1..Len(ops) :
            /\ ops' = RemoveAt(ops, i)
            /\ ops[i].op = "Test Suggestions" /\ ~ops[i].stale
    ]_vars

\* test suggestions are shown with the review and the PR context
C28_Witness ==
  /\ testSuggestions # <<>>
  /\ review # <<>>
  /\ prContext # <<>>
  /\ ~loading

(***************************************************************************)
(* C29: at most one of a review run and the requests of test suggestions   *)
(* is in flight, and loading holds exactly while one is: so the buttons    *)
(* that start a review run or a request of test suggestions are disabled   *)
(* from the start of one to its end.                                       *)
(***************************************************************************)
C29_OneLoadingOperation ==
  LET suggesting == {i \in 1..Len(ops) : ops[i].op = "Test Suggestions"}
  IN  /\ Cardinality(suggesting) + (IF pc # "idle" THEN 1 ELSE 0) <= 1
      /\ loading <=> (pc # "idle" \/ suggesting # {})
      /\ pc # "idle" <=> outcome = "running"
      /\ suggesting # {} => review # <<>>

\* a request of test suggestions is in flight together with a request of a fix
\* prompt, which is no loading operation
C29_Witness ==
  /\ loading /\ pc = "idle"
  /\ Len(ops) = 2
  /\ \E i \in 1..2 : ops[i].op = "Test Suggestions"
  /\ \E i \in 1..2 : ops[i].op = "Generate Copilot Prompt"

(***************************************************************************)
(* C30: when every call a review run awaits returns or fails, a run that   *)
(* has started leads to no run being active, loading false and the loading *)
(* step empty; and the step that ends a run leaves loading false, the      *)
(* loading step empty and exactly one of the review and the error set.     *)
(***************************************************************************)
C30_RunEndsWithReviewOrError ==
  /\ (outcome = "running") ~> (pc = "idle" /\ ~loading /\ loadingStep = "")
  /\ [][(outcome' # "running" /\ (outcome = "running" \/ ClickReview)) =>
          /\ pc' = "idle" /\ ~loading' /\ loadingStep' = ""
          /\ (review' # <<>>) # (error' # <<>>)
       ]_vars

====
